---- MODULE Spec2Model ----
(***************************************************************************)
(* Model of the R3000 instruction codec (src/r3000/opcodes.py,             *)
(* src/r3000/registers.py): register catalogs, opcode shapes, the opcode   *)
(* registry, the decoder dispatch tables and Instruction.                  *)
(*                                                                         *)
(* Integers.  Python integers are unbounded, TLC's are 32-bit signed, so   *)
(* an integer that can reach 2^31 (an encoded instruction, a PC value) is  *)
(* held as a record [hi, lo] standing for hi * 2^16 + lo with lo in        *)
(* 0..65535 and hi any integer.  Decoded fields (register indices,         *)
(* immediates) are below 2^26 in magnitude and are plain integers.         *)
(*                                                                         *)
(* None is <<>>; a present optional value v is <<v>>.                      *)
(***************************************************************************)
EXTENDS Integers, Sequences, FiniteSets, TLC

VARIABLES
    decoder,        \* the module-level Decoder instance: its four dispatch tables
    reference,      \* caller-assembled Instruction (encode path), or None
    encoded,        \* the word handed to decode, or None
    instruction,    \* what decode(encoded) returned (or raised), or None
    encoded_back,   \* what instruction.encode() returned, or None
    valid,          \* what instruction.is_valid() returned, or None
    text,           \* what instruction.to_string(context) returned, or None
    context,        \* the caller's ExecutionContext
    callers,        \* concurrent callers of the codec, each with its own word, context,
                    \* decoder activation and results; empty in the single-caller sessions
    data,           \* the hex editor widget's _Data, with its _Cursor
    last            \* the last operation on the hex editor: its name and the arguments it
                    \* was called with (history, kept for stating the properties)

vars ==
    <<decoder, reference, encoded, instruction, encoded_back, valid, text, context, callers,
      data, last>>

None == <<>>
Some(v) == <<v>>
Get(o) == o[1]

(***************************************************************************)
(* Python integer operators on the two representations.                    *)
(***************************************************************************)
Pow2(k) == 2 ^ k

\* an integer 0 <= n < 2^31 as a [hi, lo] value
W(n) == [hi |-> n \div 65536, lo |-> n % 65536]

\* a literal such as 0xfc000000, written as its two 16-bit halves
Lit(h, l) == [hi |-> h, lo |-> l]

RECURSIVE BitAnd(_, _)
BitAnd(x, y) ==
    IF x = 0 \/ y = 0 THEN 0
    ELSE (x % 2) * (y % 2) + 2 * BitAnd(x \div 2, y \div 2)

RECURSIVE BitOr(_, _)
BitOr(x, y) ==
    IF x = 0 THEN y
    ELSE IF y = 0 THEN x
    ELSE (IF x % 2 = 1 \/ y % 2 = 1 THEN 1 ELSE 0) + 2 * BitOr(x \div 2, y \div 2)

\* a & b
And(a, b) == [hi |-> BitAnd(a.hi, b.hi), lo |-> BitAnd(a.lo, b.lo)]

\* a | b
Or(a, b) == [hi |-> BitOr(a.hi, b.hi), lo |-> BitOr(a.lo, b.lo)]

\* a >> k, for a result below 2^31: a plain integer
Shr(a, k) ==
    IF k >= 16 THEN a.hi \div Pow2(k - 16)
    ELSE a.hi * Pow2(16 - k) + a.lo \div Pow2(k)

\* n << k for a plain integer n >= 0
Shl(n, k) ==
    IF k >= 16 THEN [hi |-> n * Pow2(k - 16), lo |-> 0]
    ELSE [hi |-> (n * Pow2(k)) \div 65536, lo |-> (n * Pow2(k)) % 65536]

\* a + n for a plain integer n of either sign
Add(a, n) == [hi |-> a.hi + ((a.lo + n) \div 65536), lo |-> (a.lo + n) % 65536]

\* ctypes.c_int16(a).value
c_int16(a) == IF a.lo >= 32768 THEN a.lo - 65536 ELSE a.lo

\* ctypes.c_uint16(n).value, n a plain integer of either sign
c_uint16(n) == n % 65536

(***************************************************************************)
(* Text formatting.                                                        *)
(***************************************************************************)
HexDigits == <<"0", "1", "2", "3", "4", "5", "6", "7",
               "8", "9", "A", "B", "C", "D", "E", "F">>

RECURSIVE HexX(_)
\* f'{n:X}' for n >= 0
HexX(n) == IF n < 16 THEN HexDigits[n + 1] ELSE HexX(n \div 16) \o HexDigits[(n % 16) + 1]

RECURSIVE ZeroPad(_, _)
ZeroPad(s, width) == IF Len(s) >= width THEN s ELSE ZeroPad("0" \o s, width)

\* f'{n:0{width}X}' for a plain integer n of either sign: the sign counts in the width
FormatX(n, width) ==
    IF n >= 0 THEN ZeroPad(HexX(n), width)
    ELSE "-" \o ZeroPad(HexX(-n), width - 1)

\* f'{a:0{width}X}' for a [hi, lo] value a of either sign
FormatWideX(a, width) ==
    IF a.hi > 0 THEN ZeroPad(HexX(a.hi) \o ZeroPad(HexX(a.lo), 4), width)
    ELSE IF a.hi = 0 THEN ZeroPad(HexX(a.lo), width)
    ELSE IF a.lo = 0 THEN "-" \o ZeroPad(HexX(-a.hi) \o "0000", width - 1)
    ELSE IF a.hi = -1 THEN "-" \o ZeroPad(HexX(65536 - a.lo), width - 1)
    ELSE "-" \o ZeroPad(HexX(-a.hi - 1) \o ZeroPad(HexX(65536 - a.lo), 4), width - 1)

(***************************************************************************)
(* registers.py                                                            *)
(***************************************************************************)
Register(name, alias, index) == [name |-> name, alias |-> alias, index |-> index]

\* Register.__str__
RegisterStr(register) == register.alias

\* RuntimeRegister.__init__ (Register.instantiate)
RuntimeRegister(register) == [register |-> register, value |-> W(0)]

cpu_aliases ==
    <<"zero", "at", "v0", "v1", "a0", "a1", "a2", "a3",
      "t0", "t1", "t2", "t3", "t4", "t5", "t6", "t7",
      "s0", "s1", "s2", "s3", "s4", "s5", "s6", "s7",
      "t8", "t9", "k0", "k1", "gp", "sp", "fp", "ra">>

cpu_by_index == [i \in 0..31 |-> Register("R" \o ToString(i), cpu_aliases[i + 1], i)]

\* named_registers is a sequence of 32 aliases, "" where the dict has no entry
_create_cop_by_index(named_registers, offset, unnamed_register_prefix) ==
    [i \in 0..31 |->
        Register("R" \o ToString(i + offset),
                 IF named_registers[i + 1] # "" THEN named_registers[i + 1]
                 ELSE unnamed_register_prefix \o "R" \o ToString(i),
                 i)]

_create_cop_dat_by_index(named_registers) == _create_cop_by_index(named_registers, 0, "dat")

_create_cop_cnt_by_index(named_registers) == _create_cop_by_index(named_registers, 0, "cnt")

cop_dat_by_index ==
    LET NoNames == [i \in 1..32 |-> ""]
        Cop0DatNames ==
            <<"", "", "", "BPC", "", "BDA", "TAR", "DCIC", "BadA", "BDAM", "", "BPCM", "SR", "CAUSE",
              "EPC", "PRID", "", "", "", "", "", "", "", "", "", "", "", "", "", "", "", "">>
        Cop2DatNames ==
            <<"VXY0", "VZ0", "VXY1", "VZ1", "VXY2", "VZ2", "RGBC", "OTZ", "IR0",
              "IR1", "IR2", "IR3", "SXY0", "SXY1", "SXY2", "SXYP",
              "SZ0", "SZ1", "SZ2", "SZ3", "RGB0", "RGB1", "RGB2", "RES1",
              "MAC0", "MAC1", "MAC2", "MAC3", "IRGB", "ORGB", "LZCS", "LZCR">>
    IN  [cop_id \in 0..3 |->
            CASE cop_id = 0 -> _create_cop_dat_by_index(Cop0DatNames)
              [] cop_id = 1 -> _create_cop_dat_by_index(NoNames)
              [] cop_id = 2 -> _create_cop_dat_by_index(Cop2DatNames)
              [] cop_id = 3 -> _create_cop_dat_by_index(NoNames)]

cop_cnt_by_index ==
    LET NoNames == [i \in 1..32 |-> ""]
        Cop2CntNames ==
            <<"RT11_12", "RT13_21", "RT22_23", "RT31_32", "RT33", "TRX", "TRY", "TRZ",
              "L11_12", "L13_21", "L22_23", "L31_32", "LL33", "RBK", "GBK", "BBK",
              "LR1_2", "LR3_G1", "LG2_3", "LB1_2", "LB3", "RFC", "GFC", "BFC",
              "OFX", "OFY", "H", "DQA", "DQB", "ZFS3", "ZFS4", "FLAG">>
    IN  [cop_id \in 0..3 |->
            CASE cop_id = 0 -> _create_cop_cnt_by_index(NoNames)
              [] cop_id = 1 -> _create_cop_cnt_by_index(NoNames)
              [] cop_id = 2 -> _create_cop_cnt_by_index(Cop2CntNames)
              [] cop_id = 3 -> _create_cop_cnt_by_index(NoNames)]

ra == cpu_by_index[31]

pc == Register("pc", "pc", None)

\* r.instantiate without a call: the bound method object of register r, which is not a
\* RuntimeRegister (it has no register and no value attribute; calling it makes a new cell)
BoundInstantiate(r) == [bound_method |-> "instantiate", self |-> r]

\* ExecutionContext(): every field is filled by its default_factory.  A list field holds
\* the list its comprehension built, kept here as the comprehension itself (what it
\* collects, and the module-level catalog it iterates; nothing assigns to the list or to
\* the catalog afterwards): the cop_cnt_by_index factory iterates cop_dat_by_index.  pc, hi
\* and lo have `<register>.instantiate` itself as the factory, so the dataclass calls it
\* and they hold RuntimeRegister cells.
ExecutionContext ==
    [cpu_by_index |-> [collects |-> "r.instantiate", over |-> "cpu_by_index"],
     cop_dat_by_index |-> [collects |-> "r.instantiate", over |-> "cop_dat_by_index"],
     cop_cnt_by_index |-> [collects |-> "r.instantiate", over |-> "cop_dat_by_index"],
     pc |-> RuntimeRegister(pc),
     hi |-> RuntimeRegister(Register("hi", "hi", None)),
     lo |-> RuntimeRegister(Register("lo", "lo", None))]

\* the elements of a list field of a context: [r.instantiate for r in cpu_by_index], or
\* [[r.instantiate for r in copn_registers] for copn_registers in cop_dat_by_index]
ListItems(list) ==
    IF list.over = "cpu_by_index"
    THEN [i \in 0..31 |-> BoundInstantiate(cpu_by_index[i])]
    ELSE [cop_id \in 0..3 |-> [i \in 0..31 |-> BoundInstantiate(cop_dat_by_index[cop_id][i])]]

(***************************************************************************)
(* A raised exception, as a value.  list[i] raises IndexError for an index *)
(* outside the list (the decoder's indices are never negative).            *)
(***************************************************************************)
IndexError == [raised |-> "IndexError"]

IsRaised(v) == v = IndexError

\* list[i] on a list modelled as a function over 0..len-1
Index(list, i) == IF i \in DOMAIN list THEN list[i] ELSE IndexError

(***************************************************************************)
(* opcodes.py: OpcodeArgs and Helpers                                      *)
(***************************************************************************)

\* OpcodeArgs whose imm field defaults to 0 instead of None
OpcodeArgs_imm_zero(rs, rt, rd, imm) ==
    [rs |-> rs, rt |-> rt, rd |-> rd, imm |-> IF imm = None THEN Some(0) ELSE imm]

OpcodeArgs(rs, rt, rd, imm) == [rs |-> rs, rt |-> rt, rd |-> rd, imm |-> imm]

\* an integer below 2^31 held as [hi, lo], as a plain integer
ToInt(a) == a.hi * 65536 + a.lo

\* (encoded & 0x3e00000) >> 21
decode_rs_index(enc) == Shr(And(enc, Lit(992, 0)), 21)

decode_rs(enc) == Index(cpu_by_index, decode_rs_index(enc))

encode_rs(args) == Shl(Get(args.rs).index, 21)

\* (encoded & 0x1f0000) >> 16
decode_rt_index(enc) == Shr(And(enc, Lit(31, 0)), 16)

decode_rt(enc) == Index(cpu_by_index, decode_rt_index(enc))

encode_rt(args) == Shl(Get(args.rt).index, 16)

\* decode_rd_index with a six-bit mask (0x1f800)
decode_rd_index_6bit(enc) == Shr(And(enc, Lit(1, 63488)), 11)

\* (encoded & 0xf800) >> 11
decode_rd_index(enc) == Shr(And(enc, Lit(0, 63488)), 11)

decode_rd(enc) == Index(cpu_by_index, decode_rd_index(enc))

encode_rd(args) == Shl(Get(args.rd).index, 11)
\* decode_s_imm16 without the sign extension
decode_s_imm16_unsigned(enc) == ToInt(And(enc, Lit(0, 65535)))

decode_s_imm16(enc) == c_int16(enc)

\* encoded & 0xffff
decode_u_imm16(enc) == ToInt(And(enc, Lit(0, 65535)))

encode_imm16(args) == W(c_uint16(Get(args.imm)))

\* branch_address without the 4 of the delay slot
branch_address_from_pc(ctx, args) == Add(ctx.pc.value, Get(args.imm) * 4)

\* context.pc.value + 4 + args.imm * 4
branch_address(ctx, args) == Add(Add(ctx.pc.value, 4), Get(args.imm) * 4)

branch_address_string(ctx, args) == "0x" \o FormatWideX(branch_address(ctx, args), 8)

signed_imm_string(args) ==
    IF Get(args.imm) >= 0 THEN "0x" \o FormatX(Get(args.imm), 0)
    ELSE "-0x" \o FormatX(-Get(args.imm), 0)

unsigned_imm_string(args) == "0x" \o FormatX(Get(args.imm), 0)

(***************************************************************************)
(* opcodes.py: the opcode classes.  An opcode object is a record whose cls *)
(* field names its class; the class decides which methods apply.           *)
(***************************************************************************)
\* decode_primary shifting by 25: the index runs past the 64-entry table
decode_primary_shift25(enc) == Shr(And(enc, Lit(64512, 0)), 25)

\* Opcode.decode_primary: (encoded & 0xfc000000) >> 26
decode_primary(enc) == Shr(And(enc, Lit(64512, 0)), 26)
\* decode_secondary with a five-bit mask
decode_secondary_5bit(enc) == ToInt(And(enc, Lit(0, 31)))

\* SecondaryOpcode.decode_secondary: encoded & 0x3f
decode_secondary(enc) == ToInt(And(enc, Lit(0, 63)))
\* the bXXz discriminator read from bits 19:16 only
bxxz_decode_discriminator_4bit(enc) == Shr(And(enc, Lit(15, 0)), 16)

\* BranchZeroConditionWithDiscriminatorOpcode.decode_discriminator: (encoded & 0x1f0000) >> 16
bxxz_decode_discriminator(enc) == Shr(And(enc, Lit(31, 0)), 16)
\* the execute flag read from bit 24
decode_is_exec_command_bit24(enc) == And(enc, Lit(256, 0)) # W(0)

\* _CopNonLoadStoreOpcodeBase.decode_is_exec_command: (encoded & 0x2000000) != 0
decode_is_exec_command(enc) == And(enc, Lit(512, 0)) # W(0)
\* the cop discriminator read from bits 24:22 only
decode_discriminator_3bit(enc) == Shr(And(enc, Lit(448, 0)), 21)

\* _CopNonExecuteCommandOpcodeBase.decode_discriminator: (encoded & 0x1e00000) >> 21
decode_discriminator(enc) == Shr(And(enc, Lit(480, 0)), 21)

\* _CopBranchOpcodeBase.decode_branch_type: (encoded & 0x1f0000) >> 16
decode_branch_type(enc) == Shr(And(enc, Lit(31, 0)), 16)

\* the primary opcodes fixed by class-level constants
SecondaryOpcode_PRIMARY_OPCODE == 0
BranchZero_PRIMARY_OPCODE == 1
COP0_OPCODE == 16

InvalidOpcode(enc, cause) ==
    [cls |-> "InvalidOpcode", name |-> "invalid", primary_opcode |-> decode_primary(enc),
     args_number |-> 0, encoded |-> enc, cause |-> cause]

SecondaryOpcode(cls, name, args_number, secondary_opcode) ==
    [cls |-> cls, name |-> name, primary_opcode |-> SecondaryOpcode_PRIMARY_OPCODE,
     args_number |-> args_number, secondary_opcode |-> secondary_opcode]

_ShiftImmOpcode(name, secondary_opcode) == SecondaryOpcode("_ShiftImmOpcode", name, 3, secondary_opcode)
_ShiftRegOpcode(name, secondary_opcode) == SecondaryOpcode("_ShiftRegOpcode", name, 3, secondary_opcode)
_JrOpcode(name, secondary_opcode) == SecondaryOpcode("_JrOpcode", name, 1, secondary_opcode)
_JalrOpcode(name, secondary_opcode) == SecondaryOpcode("_JalrOpcode", name, 2, secondary_opcode)

\* _ExceptionOpcode declared without an argument
_ExceptionOpcode_no_arg(name, secondary_opcode) ==
    SecondaryOpcode("_ExceptionOpcode", name, 0, secondary_opcode)

_ExceptionOpcode(name, secondary_opcode) == SecondaryOpcode("_ExceptionOpcode", name, 1, secondary_opcode)
_MfOpcode(name, secondary_opcode) == SecondaryOpcode("_MfOpcode", name, 1, secondary_opcode)
_MtOpcode(name, secondary_opcode) == SecondaryOpcode("_MtOpcode", name, 1, secondary_opcode)
_MulDivOpcode(name, secondary_opcode) == SecondaryOpcode("_MulDivOpcode", name, 2, secondary_opcode)
_AluRegOpcode(name, secondary_opcode) == SecondaryOpcode("_AluRegOpcode", name, 3, secondary_opcode)

BranchZeroConditionWithDiscriminatorOpcode(name, discriminator) ==
    [cls |-> "BranchZeroConditionWithDiscriminatorOpcode", name |-> name,
     primary_opcode |-> BranchZero_PRIMARY_OPCODE, args_number |-> 2,
     discriminator |-> discriminator]

PrimaryOpcode(cls, name, primary_opcode, args_number) ==
    [cls |-> cls, name |-> name, primary_opcode |-> primary_opcode, args_number |-> args_number]

_JumpImmediateOpcode(name, primary_opcode) == PrimaryOpcode("_JumpImmediateOpcode", name, primary_opcode, 1)
_BranchZeroConditionOpcode(name, primary_opcode) == PrimaryOpcode("_BranchZeroConditionOpcode", name, primary_opcode, 2)
_BranchNonZeroConditionOpcode(name, primary_opcode) == PrimaryOpcode("_BranchNonZeroConditionOpcode", name, primary_opcode, 3)
_AluSignedImmOpcode(name, primary_opcode) == PrimaryOpcode("_AluSignedImmOpcode", name, primary_opcode, 3)
_AluUnsignedImmOpcode(name, primary_opcode) == PrimaryOpcode("_AluUnsignedImmOpcode", name, primary_opcode, 3)
_LuiOpcode(name, primary_opcode) == PrimaryOpcode("_LuiOpcode", name, primary_opcode, 2)
_CpuLoadStoreOpcode(name, primary_opcode) == PrimaryOpcode("_CpuLoadStoreOpcode", name, primary_opcode, 3)

\* _cop_opcode_name_mixin: name_format.format(cop_id), the format given as prefix and suffix
_cop_opcode_name(prefix, cop_id, suffix) == prefix \o ToString(cop_id) \o suffix

\* _cop_get_set_register_opcode(base_name, cop_id, cop_registers)(discriminator=...);
\* cop_registers is a reference to the captured list: <<catalog name, cop_id>>
_cop_get_set_register_opcode(base_name, cop_id, cop_registers, discriminator) ==
    [cls |-> "_CopGetSetRegisterOpcode", name |-> _cop_opcode_name(base_name, cop_id, ""),
     primary_opcode |-> COP0_OPCODE + cop_id, args_number |-> 2, is_exec_command |-> FALSE,
     discriminator |-> discriminator, cop_id |-> cop_id, cop_registers |-> cop_registers]

_cop_mfc_opcode(cop_id, discriminator) ==
    _cop_get_set_register_opcode("mfc", cop_id, <<"cop_dat_by_index", cop_id>>, discriminator)

\* cfc bound to the data-register catalog
_cop_cfc_opcode_dat(cop_id, discriminator) ==
    _cop_get_set_register_opcode("cfc", cop_id, <<"cop_dat_by_index", cop_id>>, discriminator)

_cop_cfc_opcode(cop_id, discriminator) ==
    _cop_get_set_register_opcode("cfc", cop_id, <<"cop_cnt_by_index", cop_id>>, discriminator)
_cop_mtc_opcode(cop_id, discriminator) ==
    _cop_get_set_register_opcode("mtc", cop_id, <<"cop_dat_by_index", cop_id>>, discriminator)
_cop_ctc_opcode(cop_id, discriminator) ==
    _cop_get_set_register_opcode("ctc", cop_id, <<"cop_cnt_by_index", cop_id>>, discriminator)

\* _cop_branch_opcode(suffix, cop_id, type_)(discriminator=...)
_cop_branch_opcode(suffix, cop_id, type_, discriminator) ==
    [cls |-> "_CopBranchOpcode", name |-> _cop_opcode_name("bc", cop_id, suffix),
     primary_opcode |-> COP0_OPCODE + cop_id, args_number |-> 1, is_exec_command |-> FALSE,
     discriminator |-> discriminator, branch_type |-> type_, cop_id |-> cop_id]

_cop_bcf_opcode(cop_id, discriminator) == _cop_branch_opcode("f", cop_id, 0, discriminator)
_cop_bct_opcode(cop_id, discriminator) == _cop_branch_opcode("t", cop_id, 1, discriminator)

_cop_execute_opcode(cop_id) ==
    [cls |-> "_CopExecuteOpcode", name |-> _cop_opcode_name("cop", cop_id, ""),
     primary_opcode |-> COP0_OPCODE + cop_id, args_number |-> 1, is_exec_command |-> TRUE,
     cop_id |-> cop_id]

_cop_load_store_opcode(base_name, cop_id, primary) ==
    [cls |-> "_CopLoadStoreOpcode", name |-> _cop_opcode_name(base_name, cop_id, ""),
     primary_opcode |-> primary + cop_id, args_number |-> 3, cop_id |-> cop_id]

_cop_lwc_opcode(cop_id) == _cop_load_store_opcode("lwc", cop_id, 48)
\* swc registered four primaries higher (0x3C + n)
_cop_swc_opcode_0x3c(cop_id) == _cop_load_store_opcode("swc", cop_id, 60)

_cop_swc_opcode(cop_id) == _cop_load_store_opcode("swc", cop_id, 56)

(***************************************************************************)
(* decode_args of each class                                               *)
(***************************************************************************)
\* the register list a _CopGetSetRegisterOpcode class captured, from its reference
Catalog(cop_registers) ==
    IF cop_registers[1] = "cop_dat_by_index" THEN cop_dat_by_index[cop_registers[2]]
    ELSE cop_cnt_by_index[cop_registers[2]]

\* opcode.decode_args(encoded), resolved through the class of the opcode
decode_args(opcode, enc) ==
    CASE opcode.cls = "_ShiftImmOpcode" ->
            OpcodeArgs(None, Some(decode_rt(enc)), Some(decode_rd(enc)),
                       Some(Shr(And(enc, Lit(0, 1984)), 6)))
      [] opcode.cls \in {"_ShiftRegOpcode", "_AluRegOpcode"} ->
            OpcodeArgs(Some(decode_rs(enc)), Some(decode_rt(enc)), Some(decode_rd(enc)), None)
      [] opcode.cls = "_JrOpcode" -> OpcodeArgs(Some(decode_rs(enc)), None, None, None)
      [] opcode.cls = "_JalrOpcode" ->
            OpcodeArgs(Some(decode_rs(enc)), None, Some(decode_rd(enc)), None)
      [] opcode.cls = "_ExceptionOpcode" ->
            OpcodeArgs(None, None, None, Some(Shr(And(enc, Lit(1023, 65472)), 6)))
      [] opcode.cls = "_MfOpcode" -> OpcodeArgs(None, None, Some(decode_rd(enc)), None)
      [] opcode.cls = "_MtOpcode" -> OpcodeArgs(Some(decode_rs(enc)), None, None, None)
      [] opcode.cls = "_MulDivOpcode" ->
            OpcodeArgs(Some(decode_rs(enc)), Some(decode_rt(enc)), None, None)
      [] opcode.cls = "_JumpImmediateOpcode" ->
            OpcodeArgs(None, None, None, Some(ToInt(And(enc, Lit(1023, 65535)))))
      [] opcode.cls \in {"_BranchZeroConditionOpcode", "BranchZeroConditionWithDiscriminatorOpcode"} ->
            OpcodeArgs(Some(decode_rs(enc)), None, None, Some(decode_s_imm16(enc)))
      [] opcode.cls \in {"_BranchNonZeroConditionOpcode", "_AluSignedImmOpcode", "_CpuLoadStoreOpcode"} ->
            OpcodeArgs(Some(decode_rs(enc)), Some(decode_rt(enc)), None, Some(decode_s_imm16(enc)))
      [] opcode.cls = "_AluUnsignedImmOpcode" ->
            OpcodeArgs(Some(decode_rs(enc)), Some(decode_rt(enc)), None, Some(decode_u_imm16(enc)))
      [] opcode.cls = "_LuiOpcode" ->
            OpcodeArgs(None, Some(decode_rt(enc)), None, Some(decode_u_imm16(enc)))
      [] opcode.cls = "_CopGetSetRegisterOpcode" ->
            OpcodeArgs(None, Some(decode_rt(enc)), Some(Index(Catalog(opcode.cop_registers), decode_rd_index(enc))), None)
      [] opcode.cls = "_CopBranchOpcode" -> OpcodeArgs(None, None, None, Some(decode_s_imm16(enc)))
      [] opcode.cls = "_CopExecuteOpcode" ->
            OpcodeArgs(None, None, None, Some(ToInt(And(enc, Lit(511, 65535)))))
      [] opcode.cls = "_CopLoadStoreOpcode" ->
            OpcodeArgs(Some(decode_rs(enc)),
                       Some(Index(cop_dat_by_index[opcode.cop_id], decode_rt_index(enc))), None, Some(decode_s_imm16(enc)))
      [] opcode.cls = "InvalidOpcode" -> OpcodeArgs(None, None, None, None)

(***************************************************************************)
(* encode_args of each class                                               *)
(***************************************************************************)
\* opcode.encode_args(args), resolved through the class of the opcode
encode_args(opcode, args) ==
    CASE opcode.cls = "_ShiftImmOpcode" ->
            Or(Or(encode_rt(args), encode_rd(args)), Shl(Get(args.imm), 6))
      [] opcode.cls \in {"_ShiftRegOpcode", "_AluRegOpcode"} ->
            Or(Or(encode_rs(args), encode_rt(args)), encode_rd(args))
      [] opcode.cls = "_JrOpcode" -> encode_rs(args)
      [] opcode.cls = "_JalrOpcode" -> Or(encode_rs(args), encode_rd(args))
      [] opcode.cls = "_ExceptionOpcode" -> Shl(Get(args.imm), 6)
      [] opcode.cls = "_MfOpcode" -> encode_rd(args)
      [] opcode.cls = "_MtOpcode" -> encode_rs(args)
      [] opcode.cls = "_MulDivOpcode" -> Or(encode_rs(args), encode_rt(args))
      [] opcode.cls = "_JumpImmediateOpcode" -> W(Get(args.imm))
      [] opcode.cls \in {"_BranchZeroConditionOpcode", "BranchZeroConditionWithDiscriminatorOpcode"} ->
            Or(encode_rs(args), encode_imm16(args))
      [] opcode.cls \in {"_BranchNonZeroConditionOpcode", "_AluSignedImmOpcode", "_AluUnsignedImmOpcode",
                         "_CpuLoadStoreOpcode", "_CopLoadStoreOpcode"} ->
            Or(Or(encode_rs(args), encode_rt(args)), encode_imm16(args))
      [] opcode.cls = "_LuiOpcode" -> Or(encode_rt(args), encode_imm16(args))
      [] opcode.cls = "_CopGetSetRegisterOpcode" -> Or(encode_rt(args), encode_rd(args))
      [] opcode.cls = "_CopBranchOpcode" -> encode_imm16(args)
      [] opcode.cls = "_CopExecuteOpcode" -> W(Get(args.imm))
      [] opcode.cls = "InvalidOpcode" -> W(0)

(***************************************************************************)
(* encode, along each class's super() chain                                *)
(***************************************************************************)
\* Opcode.encode: (self.primary_opcode << 26) | self.encode_args(args)
Opcode_encode(opcode, args) == Or(Shl(opcode.primary_opcode, 26), encode_args(opcode, args))

\* SecondaryOpcode.encode: super().encode(args) | self.encode_secondary()
SecondaryOpcode_encode(opcode, args) == Or(Opcode_encode(opcode, args), W(opcode.secondary_opcode))

\* BranchZeroConditionWithDiscriminatorOpcode.encode: super().encode(args) | (self.discriminator << 16)
BranchZeroConditionWithDiscriminatorOpcode_encode(opcode, args) ==
    Or(Opcode_encode(opcode, args), Shl(opcode.discriminator, 16))

\* _CopNonLoadStoreOpcodeBase.encode: super().encode(args) | (0x2000000 if self.is_exec_command else 0)
_CopNonLoadStoreOpcodeBase_encode(opcode, args) ==
    Or(Opcode_encode(opcode, args), IF opcode.is_exec_command THEN Lit(512, 0) ELSE W(0))

\* _CopNonExecuteCommandOpcodeBase.encode: super().encode(args) | (self.discriminator << 21)
_CopNonExecuteCommandOpcodeBase_encode(opcode, args) ==
    Or(_CopNonLoadStoreOpcodeBase_encode(opcode, args), Shl(opcode.discriminator, 21))

\* _CopBranchOpcodeBase without its encode override: the branch type bit is not encoded
_CopBranchOpcodeBase_encode_inherited(opcode, args) ==
    _CopNonExecuteCommandOpcodeBase_encode(opcode, args)

\* _CopBranchOpcodeBase.encode: super().encode(args) | (self.branch_type << 16)
_CopBranchOpcodeBase_encode(opcode, args) ==
    Or(_CopNonExecuteCommandOpcodeBase_encode(opcode, args), Shl(opcode.branch_type, 16))

\* InvalidOpcode without its encode override: the inherited Opcode.encode
InvalidOpcode_encode_inherited(opcode, args) == Or(Shl(opcode.primary_opcode, 26), W(0))

\* InvalidOpcode.encode: self.encoded
InvalidOpcode_encode(opcode, args) == opcode.encoded

SecondaryClasses ==
    {"_ShiftImmOpcode", "_ShiftRegOpcode", "_JrOpcode", "_JalrOpcode", "_ExceptionOpcode",
     "_MfOpcode", "_MtOpcode", "_MulDivOpcode", "_AluRegOpcode"}

\* opcode.encode(args), resolved through the class of the opcode
Opcode_encode_dispatch(opcode, args) ==
    CASE opcode.cls = "InvalidOpcode" -> InvalidOpcode_encode(opcode, args)
      [] opcode.cls \in SecondaryClasses -> SecondaryOpcode_encode(opcode, args)
      [] opcode.cls = "BranchZeroConditionWithDiscriminatorOpcode" ->
            BranchZeroConditionWithDiscriminatorOpcode_encode(opcode, args)
      [] opcode.cls = "_CopGetSetRegisterOpcode" ->
            _CopNonExecuteCommandOpcodeBase_encode(opcode, args)
      [] opcode.cls = "_CopBranchOpcode" -> _CopBranchOpcodeBase_encode(opcode, args)
      [] opcode.cls = "_CopExecuteOpcode" -> _CopNonLoadStoreOpcodeBase_encode(opcode, args)
      [] OTHER -> Opcode_encode(opcode, args)

(***************************************************************************)
(* args_to_string of each class and Opcode.to_string                       *)
(***************************************************************************)
Str(o) == RegisterStr(Get(o))

\* _JumpImmediateOpcode.args_to_string with the segment taken from the top two bits of the PC
_JumpImmediateOpcode_args_to_string_2bit(ctx, args) ==
    "0x" \o FormatWideX(Add(And(ctx.pc.value, Lit(49152, 0)), Get(args.imm) * 4), 8)

\* _JumpImmediateOpcode.args_to_string:
\* f'0x{(context.pc.value & 0xf0000000) + args.imm * 4:08X}'
_JumpImmediateOpcode_args_to_string(ctx, args) ==
    "0x" \o FormatWideX(Add(And(ctx.pc.value, Lit(61440, 0)), Get(args.imm) * 4), 8)

\* opcode.args_to_string(context, args), resolved through the class of the opcode
args_to_string(opcode, ctx, args) ==
    CASE opcode.cls = "_ShiftImmOpcode" ->
            Str(args.rd) \o ", " \o Str(args.rt) \o ", " \o unsigned_imm_string(args)
      [] opcode.cls = "_ShiftRegOpcode" ->
            Str(args.rd) \o ", " \o Str(args.rt) \o ", " \o Str(args.rs)
      [] opcode.cls = "_JrOpcode" -> Str(args.rs)
      [] opcode.cls = "_JalrOpcode" ->
            IF Get(args.rd) = ra THEN Str(args.rs) ELSE Str(args.rs) \o ", " \o Str(args.rd)
      [] opcode.cls = "_ExceptionOpcode" ->
            IF Get(args.imm) # 0 THEN unsigned_imm_string(args) ELSE ""
      [] opcode.cls = "_MfOpcode" -> Str(args.rd)
      [] opcode.cls = "_MtOpcode" -> Str(args.rs)
      [] opcode.cls = "_MulDivOpcode" -> Str(args.rs) \o ", " \o Str(args.rt)
      [] opcode.cls = "_AluRegOpcode" ->
            Str(args.rd) \o ", " \o Str(args.rs) \o ", " \o Str(args.rt)
      [] opcode.cls = "_JumpImmediateOpcode" -> _JumpImmediateOpcode_args_to_string(ctx, args)
      [] opcode.cls \in {"_BranchZeroConditionOpcode", "BranchZeroConditionWithDiscriminatorOpcode"} ->
            Str(args.rs) \o ", " \o branch_address_string(ctx, args)
      [] opcode.cls = "_BranchNonZeroConditionOpcode" ->
            Str(args.rs) \o ", " \o Str(args.rt) \o ", " \o branch_address_string(ctx, args)
      [] opcode.cls = "_AluSignedImmOpcode" ->
            Str(args.rt) \o ", " \o Str(args.rs) \o ", " \o signed_imm_string(args)
      [] opcode.cls = "_AluUnsignedImmOpcode" ->
            Str(args.rt) \o ", " \o Str(args.rs) \o ", " \o unsigned_imm_string(args)
      [] opcode.cls = "_LuiOpcode" -> Str(args.rt) \o ", " \o unsigned_imm_string(args)
      [] opcode.cls \in {"_CpuLoadStoreOpcode", "_CopLoadStoreOpcode"} ->
            Str(args.rt) \o ", " \o signed_imm_string(args) \o "(" \o Str(args.rs) \o ")"
      [] opcode.cls = "_CopGetSetRegisterOpcode" -> Str(args.rt) \o ", " \o Str(args.rd)
      [] opcode.cls = "_CopBranchOpcode" -> branch_address_string(ctx, args)
      [] opcode.cls = "_CopExecuteOpcode" -> "0x" \o FormatX(Get(args.imm), 6)
      [] opcode.cls = "InvalidOpcode" -> ""

\* Opcode.to_string (no args_to_string returns None, so the '' branch is never taken)
Opcode_to_string(opcode, ctx, args) ==
    LET args_string == args_to_string(opcode, ctx, args)
    IN  IF Len(args_string) > 0 THEN opcode.name \o " " \o args_string ELSE opcode.name

(***************************************************************************)
(* The opcode registry (class Opcodes)                                     *)
(***************************************************************************)
\* _cop_opcodes: tuple(cop_opcode_type_creator(cop_id, **kwargs) for cop_id in range(4));
\* the creator is passed by name, discriminator is the keyword argument when there is one
_cop_opcodes(cop_opcode_type_creator, discriminator) ==
    [cop_id \in 0..3 |->
        CASE cop_opcode_type_creator = "_cop_mfc_opcode" -> _cop_mfc_opcode(cop_id, discriminator)
          [] cop_opcode_type_creator = "_cop_cfc_opcode" -> _cop_cfc_opcode(cop_id, discriminator)
          [] cop_opcode_type_creator = "_cop_mtc_opcode" -> _cop_mtc_opcode(cop_id, discriminator)
          [] cop_opcode_type_creator = "_cop_ctc_opcode" -> _cop_ctc_opcode(cop_id, discriminator)
          [] cop_opcode_type_creator = "_cop_bcf_opcode" -> _cop_bcf_opcode(cop_id, discriminator)
          [] cop_opcode_type_creator = "_cop_bct_opcode" -> _cop_bct_opcode(cop_id, discriminator)
          [] cop_opcode_type_creator = "_cop_execute_opcode" -> _cop_execute_opcode(cop_id)
          [] cop_opcode_type_creator = "_cop_lwc_opcode" -> _cop_lwc_opcode(cop_id)
          [] cop_opcode_type_creator = "_cop_swc_opcode" -> _cop_swc_opcode(cop_id)]

Opcodes ==
    [sll |-> _ShiftImmOpcode("sll", 0),
     srl |-> _ShiftImmOpcode("srl", 2),
     sra |-> _ShiftImmOpcode("sra", 3),
     sllv |-> _ShiftRegOpcode("sllv", 4),
     srlv |-> _ShiftRegOpcode("srlv", 6),
     srav |-> _ShiftRegOpcode("srav", 7),
     jr |-> _JrOpcode("jr", 8),
     jalr |-> _JalrOpcode("jalr", 9),
     syscall |-> _ExceptionOpcode("syscall", 12),
     break_ |-> _ExceptionOpcode("break", 13),
     mfhi |-> _MfOpcode("mfhi", 16),
     mthi |-> _MtOpcode("mthi", 17),
     mflo |-> _MfOpcode("mflo", 18),
     mtlo |-> _MtOpcode("mtlo", 19),
     mult |-> _MulDivOpcode("mult", 24),
     multu |-> _MulDivOpcode("multu", 25),
     div |-> _MulDivOpcode("div", 26),
     divu |-> _MulDivOpcode("divu", 27),
     add |-> _AluRegOpcode("add", 32),
     addu |-> _AluRegOpcode("addu", 33),
     sub |-> _AluRegOpcode("sub", 34),
     subu |-> _AluRegOpcode("subu", 35),
     and_ |-> _AluRegOpcode("and", 36),
     or_ |-> _AluRegOpcode("or", 37),
     xor |-> _AluRegOpcode("xor", 38),
     nor |-> _AluRegOpcode("nor", 39),
     slt |-> _AluRegOpcode("slt", 42),
     sltu |-> _AluRegOpcode("sltu", 43),
     bltz |-> BranchZeroConditionWithDiscriminatorOpcode("bltz", 0),
     bgez |-> BranchZeroConditionWithDiscriminatorOpcode("bgez", 1),
     bltzal |-> BranchZeroConditionWithDiscriminatorOpcode("bltzal", 16),
     bgezal |-> BranchZeroConditionWithDiscriminatorOpcode("bgezal", 17),
     j |-> _JumpImmediateOpcode("j", 2),
     jal |-> _JumpImmediateOpcode("jal", 3),
     beq |-> _BranchNonZeroConditionOpcode("beq", 4),
     bne |-> _BranchNonZeroConditionOpcode("bne", 5),
     blez |-> _BranchZeroConditionOpcode("blez", 6),
     bgtz |-> _BranchZeroConditionOpcode("bgtz", 7),
     addi |-> _AluSignedImmOpcode("addi", 8),
     addiu |-> _AluSignedImmOpcode("addiu", 9),
     slti |-> _AluSignedImmOpcode("slti", 10),
     sltiu |-> _AluSignedImmOpcode("sltiu", 11),
     andi |-> _AluUnsignedImmOpcode("andi", 12),
     ori |-> _AluUnsignedImmOpcode("ori", 13),
     xori |-> _AluUnsignedImmOpcode("xori", 14),
     lui |-> _LuiOpcode("lui", 15),
     mfc |-> _cop_opcodes("_cop_mfc_opcode", 0),
     cfc |-> _cop_opcodes("_cop_cfc_opcode", 2),
     mtc |-> _cop_opcodes("_cop_mtc_opcode", 4),
     ctc |-> _cop_opcodes("_cop_ctc_opcode", 6),
     bcf |-> _cop_opcodes("_cop_bcf_opcode", 8),
     bct |-> _cop_opcodes("_cop_bct_opcode", 8),
     cop |-> _cop_opcodes("_cop_execute_opcode", None),
     lwc |-> _cop_opcodes("_cop_lwc_opcode", None),
     swc |-> _cop_opcodes("_cop_swc_opcode", None),
     lb |-> _CpuLoadStoreOpcode("lb", 32),
     lh |-> _CpuLoadStoreOpcode("lh", 33),
     lwl |-> _CpuLoadStoreOpcode("lwl", 34),
     lw |-> _CpuLoadStoreOpcode("lw", 35),
     lbu |-> _CpuLoadStoreOpcode("lbu", 36),
     lhu |-> _CpuLoadStoreOpcode("lhu", 37),
     lwr |-> _CpuLoadStoreOpcode("lwr", 38),
     sb |-> _CpuLoadStoreOpcode("sb", 40),
     sh |-> _CpuLoadStoreOpcode("sh", 41),
     swl |-> _CpuLoadStoreOpcode("swl", 42),
     sw |-> _CpuLoadStoreOpcode("sw", 43),
     swr |-> _CpuLoadStoreOpcode("swr", 46)]

(***************************************************************************)
(* Instruction                                                             *)
(***************************************************************************)
Instruction(opcode, args) == [opcode |-> opcode, args |-> args]

\* InvalidInstruction(opcode): args defaults to OpcodeArgs()
InvalidInstruction(opcode) == Instruction(opcode, OpcodeArgs(None, None, None, None))

Instruction_to_string(instr, ctx) == Opcode_to_string(instr.opcode, ctx, instr.args)

Instruction_encode(instr) == Opcode_encode_dispatch(instr.opcode, instr.args)

\* not isinstance(self.opcode, InvalidOpcode)
Instruction_is_valid(instr) == instr.opcode.cls # "InvalidOpcode"

(***************************************************************************)
(* Decoder.  A table entry is None or a closure, held as a record naming   *)
(* the function it calls and the values it captured.                       *)
(***************************************************************************)
\* [None] * n
NoDecoders(n) == [i \in 0..(n - 1) |-> None]

\* a tuple of four coprocessor opcodes as the sequence iterated by the insert loops
AsSeq(t) == [k \in 1..4 |-> t[k - 1]]

\* Decoder._create_from_opcode_decoder: lambda encoded: Decoder._instruction_from_opcode(opcode, encoded)
_create_from_opcode_decoder(opcode) == [calls |-> "_instruction_from_opcode", opcode |-> opcode]

RECURSIVE _insert_primary_opcode_decoders(_, _)
_insert_primary_opcode_decoders(_primary_decoders, opcodes) ==
    IF opcodes = <<>> THEN _primary_decoders
    ELSE _insert_primary_opcode_decoders(
            [_primary_decoders EXCEPT ![Head(opcodes).primary_opcode] =
                _create_from_opcode_decoder(Head(opcodes))],
            Tail(opcodes))

RECURSIVE _insert_secondary_opcode_decoders(_, _)
_insert_secondary_opcode_decoders(_secondary_decoders, opcodes) ==
    IF opcodes = <<>> THEN _secondary_decoders
    ELSE _insert_secondary_opcode_decoders(
            [_secondary_decoders EXCEPT ![Head(opcodes).secondary_opcode] =
                _create_from_opcode_decoder(Head(opcodes))],
            Tail(opcodes))

RECURSIVE _insert_zero_condition_decoders(_, _)
_insert_zero_condition_decoders(_branch_zero_condition_decoders, opcodes) ==
    IF opcodes = <<>> THEN _branch_zero_condition_decoders
    ELSE _insert_zero_condition_decoders(
            [_branch_zero_condition_decoders EXCEPT ![Head(opcodes).discriminator] =
                _create_from_opcode_decoder(Head(opcodes))],
            Tail(opcodes))

RECURSIVE _insert_coprocessor_with_discriminator_decoders(_, _)
\* opcodes is a sequence of four-opcode tuples; each tuple's entry cop_id goes to table cop_id
_insert_coprocessor_with_discriminator_decoders(_coprocessor_with_discriminator_decoders, opcodes) ==
    IF opcodes = <<>> THEN _coprocessor_with_discriminator_decoders
    ELSE _insert_coprocessor_with_discriminator_decoders(
            [cop_id \in 0..3 |->
                [_coprocessor_with_discriminator_decoders[cop_id]
                    EXCEPT ![Head(opcodes)[cop_id].discriminator] =
                        _create_from_opcode_decoder(Head(opcodes)[cop_id])]],
            Tail(opcodes))

RECURSIVE _insert_coprocessor_decoders(_, _)
_insert_coprocessor_decoders(_primary_decoders, opcodes) ==
    IF opcodes = <<>> THEN _primary_decoders
    ELSE _insert_coprocessor_decoders(
            _insert_primary_opcode_decoders(_primary_decoders, AsSeq(Head(opcodes))),
            Tail(opcodes))

\* the primary table after the assignments of Decoder.__init__, in source order
\* Decoder.__init__
Decoder ==
    LET Decoder_primary_decoders ==
            LET t0 == NoDecoders(64)
                t1 == [t0 EXCEPT
                        ![SecondaryOpcode_PRIMARY_OPCODE] = [calls |-> "_secondary_opcode_decoder"],
                        ![BranchZero_PRIMARY_OPCODE] =
                            [calls |-> "_branch_zero_condition_with_discriminator_opcode_decoder"]]
                t2 == _insert_primary_opcode_decoders(t1,
                        <<Opcodes.j, Opcodes.jal,
                          Opcodes.beq, Opcodes.bne, Opcodes.blez, Opcodes.bgtz,
                          Opcodes.addiu, Opcodes.addi, Opcodes.slti, Opcodes.sltiu,
                          Opcodes.andi, Opcodes.ori, Opcodes.xori, Opcodes.lui,
                          Opcodes.lb, Opcodes.lh, Opcodes.lwl, Opcodes.lw, Opcodes.lbu, Opcodes.lhu,
                          Opcodes.lwr, Opcodes.sb, Opcodes.sh, Opcodes.swl, Opcodes.sw, Opcodes.swr>>)
                t3 == [t2 EXCEPT
                        ![COP0_OPCODE] = [calls |-> "_cop_non_load_store_decoder", cop_id |-> 0],
                        ![COP0_OPCODE + 1] = [calls |-> "_cop_non_load_store_decoder", cop_id |-> 1],
                        ![COP0_OPCODE + 2] = [calls |-> "_cop_non_load_store_decoder", cop_id |-> 2],
                        ![COP0_OPCODE + 3] = [calls |-> "_cop_non_load_store_decoder", cop_id |-> 3]]
            IN  _insert_coprocessor_decoders(t3, <<Opcodes.lwc, Opcodes.swc>>)
        Decoder_secondary_decoders ==
            _insert_secondary_opcode_decoders(NoDecoders(64),
                <<Opcodes.sll, Opcodes.srl, Opcodes.sra, Opcodes.sllv, Opcodes.srlv, Opcodes.srav,
                  Opcodes.jr, Opcodes.jalr, Opcodes.syscall, Opcodes.break_,
                  Opcodes.mfhi, Opcodes.mthi, Opcodes.mflo, Opcodes.mtlo,
                  Opcodes.mult, Opcodes.multu, Opcodes.div, Opcodes.divu,
                  Opcodes.add, Opcodes.addu, Opcodes.sub, Opcodes.subu, Opcodes.and_, Opcodes.or_,
                  Opcodes.xor, Opcodes.nor, Opcodes.slt, Opcodes.sltu>>)
        Decoder_branch_zero_condition_decoders ==
            _insert_zero_condition_decoders(NoDecoders(32),
                <<Opcodes.bltz, Opcodes.bgez, Opcodes.bltzal, Opcodes.bgezal>>)
        Decoder_coprocessor_with_discriminator_decoders ==
            LET t0 == [cop_id \in 0..3 |-> NoDecoders(16)]
                t1 == _insert_coprocessor_with_discriminator_decoders(t0,
                        <<Opcodes.mfc, Opcodes.cfc, Opcodes.mtc, Opcodes.ctc>>)
            IN  [cop_id \in 0..3 |->
                    [t1[cop_id] EXCEPT ![Opcodes.bcf[cop_id].discriminator] =
                        [calls |-> "_cop_branch_decoder", cop_id |-> cop_id]]]
    IN  [_primary_decoders |-> Decoder_primary_decoders,
         _branch_zero_condition_decoders |-> Decoder_branch_zero_condition_decoders,
         _secondary_decoders |-> Decoder_secondary_decoders,
         _coprocessor_with_discriminator_decoders |-> Decoder_coprocessor_with_discriminator_decoders]

_create_invalid_instruction(enc, cause) == InvalidInstruction(InvalidOpcode(enc, cause))

\* a register lookup of decode_args raised
ArgsRaised(args) ==
    \E o \in {args.rs, args.rt, args.rd} : o # None /\ IsRaised(Get(o))

\* Decoder._instruction_from_opcode: Instruction(opcode, opcode.decode_args(encoded))
_instruction_from_opcode(opcode, enc) ==
    LET args == decode_args(opcode, enc)
    IN  IF ArgsRaised(args) THEN IndexError ELSE Instruction(opcode, args)

\* the cause lambdas handed to Decoder._decoder
PrimaryCause == [primary \in Nat |-> "Invalid primary opcode 0x" \o FormatX(primary, 2)]
SecondaryCause == [secondary \in Nat |-> "Invalid secondary opcode 0x" \o FormatX(secondary, 2)]
BranchZeroCause == [discriminator \in Nat |-> "Invalid bXXz discriminator 0x" \o FormatX(discriminator, 2)]

\* the reserved-discriminator lambda returning a cause that names the discriminator
CopDiscriminatorCause_labelled ==
    [discriminator \in Nat |-> "Invalid cop discriminator 0x" \o FormatX(discriminator, 2)]

CopDiscriminatorCause == [discriminator \in Nat |-> ""]
\* _cop_branch_decoder with the cause padded to two digits
_cop_branch_decoder_padded(enc, cop_id) ==
    LET branch_type == decode_branch_type(enc)
    IN  IF branch_type = 0 THEN _instruction_from_opcode(Opcodes.bcf[cop_id], enc)
        ELSE IF branch_type = 1 THEN _instruction_from_opcode(Opcodes.bct[cop_id], enc)
        ELSE _create_invalid_instruction(enc, "Invalid cop branch type 0x" \o FormatX(branch_type, 2))

\* Decoder._cop_branch_decoder
_cop_branch_decoder(enc, cop_id) ==
    LET branch_type == decode_branch_type(enc)
    IN  IF branch_type = 0 THEN _instruction_from_opcode(Opcodes.bcf[cop_id], enc)
        ELSE IF branch_type = 1 THEN _instruction_from_opcode(Opcodes.bct[cop_id], enc)
        ELSE _create_invalid_instruction(enc, "Invalid cop branch type 0x" \o FormatX(branch_type, 0))

RECURSIVE _decoder(_, _, _, _, _)
RECURSIVE Call(_, _, _)

\* Decoder._secondary_opcode_decoder
_secondary_opcode_decoder(self, enc) ==
    _decoder(self, self._secondary_decoders, decode_secondary(enc), enc, SecondaryCause)

\* Decoder._branch_zero_condition_with_discriminator_opcode_decoder
_branch_zero_condition_with_discriminator_opcode_decoder(self, enc) ==
    _decoder(self, self._branch_zero_condition_decoders, bxxz_decode_discriminator(enc), enc,
             BranchZeroCause)

\* Decoder._cop_non_load_store_decoder
_cop_non_load_store_decoder(self, enc, cop_id) ==
    LET is_exec_command == decode_is_exec_command(enc)
    IN  IF is_exec_command THEN _instruction_from_opcode(Opcodes.cop[cop_id], enc)
        ELSE _decoder(self, self._coprocessor_with_discriminator_decoders[cop_id],
                      decode_discriminator(enc), enc, CopDiscriminatorCause)

\* decoder(encoded): calling a table entry
Call(self, closure, enc) ==
    CASE closure.calls = "_instruction_from_opcode" -> _instruction_from_opcode(closure.opcode, enc)
      [] closure.calls = "_secondary_opcode_decoder" -> _secondary_opcode_decoder(self, enc)
      [] closure.calls = "_branch_zero_condition_with_discriminator_opcode_decoder" ->
            _branch_zero_condition_with_discriminator_opcode_decoder(self, enc)
      [] closure.calls = "_cop_non_load_store_decoder" ->
            _cop_non_load_store_decoder(self, enc, closure.cop_id)
      [] closure.calls = "_cop_branch_decoder" -> _cop_branch_decoder(enc, closure.cop_id)

\* Decoder._decoder
_decoder(self, decoders, i, enc, invalid_cause_creator) ==
    LET d == Index(decoders, i)
    IN  IF IsRaised(d) THEN IndexError
        ELSE IF d # None THEN Call(self, d, enc)
        ELSE _create_invalid_instruction(enc, invalid_cause_creator[i])

\* Decoder.decode
Decoder_decode(self, enc) ==
    _decoder(self, self._primary_decoders, decode_primary(enc), enc, PrimaryCause)

\* a decode that keeps a flag set by an earlier is_valid() call and rejects every word after it
decode_after_is_valid(enc) ==
    IF valid = None THEN Decoder_decode(decoder, enc) ELSE _create_invalid_instruction(enc, "")

\* the module-level decode(encoded): _decoder.decode(encoded)
decode(enc) == Decoder_decode(decoder, enc)

(***************************************************************************)
(* ui/widgets/hex_editor_widget.py: _Cursor and _Data.  A cursor position  *)
(* is an index between nibbles: a row of groups_per_row groups of          *)
(* positions_in_group nibbles has positions_in_row positions, the last one *)
(* being the position after the last nibble of the row.  Python integers   *)
(* are unbounded; // and % are the floor division and modulo of \div and % *)
(* (all divisors here are positive).                                       *)
(***************************************************************************)
\* _Cursor.__init__
_Cursor ==
    [visible |-> FALSE, _position |-> 0, _anchor_position |-> 0, _max_position |-> 0,
     positions_in_row |-> 1, positions_in_group |-> 1]

\* _Cursor.upper_clamped_position
\* min(position, self.max_position)
upper_clamped_position(self, position) ==
    IF position < self._max_position THEN position ELSE self._max_position

\* a clamp with no lower limit
clamped_position_upper(self, position) == upper_clamped_position(self, position)

\* _Cursor.clamped_position
\* max(0, self.upper_clamped_position(position))
clamped_position(self, position) ==
    IF 0 > upper_clamped_position(self, position) THEN 0
    ELSE upper_clamped_position(self, position)

\* _Cursor.position setter: self._position = self.clamped_position(position)
set_position(self, position) == [self EXCEPT !._position = clamped_position(self, position)]

\* _Cursor._clamp_position
_clamp_position(self) ==
    LET positioned == set_position(self, clamped_position(self, self._position))
    IN  [positioned EXCEPT
            !._anchor_position = clamped_position(positioned, positioned._anchor_position)]

\* _Cursor.max_position setter
set_max_position(self, max_position) ==
    _clamp_position([self EXCEPT !._max_position = max_position])

\* _Cursor.current_row
current_row(self) == self._position \div self.positions_in_row

\* _Cursor.row_positions: (start_position, end_position)
row_positions(self, row) ==
    LET start_position == upper_clamped_position(self, row * self.positions_in_row)
        end_position ==
            upper_clamped_position(self, start_position + self.positions_in_row - 1)
    IN  <<start_position, end_position>>

\* a position_to_grid with no case for the last position of a row
position_to_grid_plain(self, position) ==
    <<position \div self.positions_in_row,
      (position % self.positions_in_row) \div self.positions_in_group,
      (position % self.positions_in_row) % self.positions_in_group>>

\* _Cursor.position_to_grid: (row, group, nibble); max_position_in_row is positions_in_row - 1
position_to_grid(self, position) ==
    LET row == position \div self.positions_in_row
        in_row_position == position % self.positions_in_row
        group == in_row_position \div self.positions_in_group
    IN  IF in_row_position # self.positions_in_row - 1
        THEN <<row, group, in_row_position % self.positions_in_group>>
        ELSE <<row, group - 1, self.positions_in_group>>

\* _Cursor.grid_to_position
grid_to_position(self, row, group, nibble) ==
    row * self.positions_in_row + group * self.positions_in_group + nibble

\* _Cursor.can_move_by
can_move_by(self, shift) ==
    0 <= self._position + shift /\ self._position + shift <= self._max_position

\* a move_to that assigns the position and leaves the anchor where it is
move_to_anchor_kept(self, new_position, move_anchor) == set_position(self, new_position)

\* _Cursor.move_to
move_to(self, new_position, move_anchor) ==
    LET clamped == clamped_position(self, new_position)
        selection_direction == IF clamped > self._position THEN 1 ELSE -1
        anchor == position_to_grid(self, self._anchor_position)
        anchored ==
            IF ~move_anchor /\ self._position = self._anchor_position
            THEN [self EXCEPT !._anchor_position =
                    grid_to_position(self, anchor[1], anchor[2],
                        IF anchor[3] % 2 # 0 THEN anchor[3] - selection_direction
                        ELSE anchor[3])]
            ELSE self
        cursor == position_to_grid(self, clamped)
        target ==
            IF ~move_anchor /\ cursor[3] % 2 # 0
            THEN grid_to_position(self, cursor[1], cursor[2], cursor[3] + selection_direction)
            ELSE clamped
        positioned == set_position(anchored, target)
    IN  IF move_anchor
        THEN [positioned EXCEPT !._anchor_position = positioned._position]
        ELSE positioned

\* _Cursor.move_by
move_by(self, shift, move_anchor) == move_to(self, self._position + shift, move_anchor)

\* _Data(): data_bytes is kept by its size (data_bytes.size); cursor_visible is the
\* attribute the widget adds on its first cursor update (None until then)
_Data ==
    [data_bytes |-> 0, groups_per_row |-> 1, group_size |-> 1, bytes_per_row |-> 1,
     rows_number |-> 1, full_rows_number |-> 1, cursor |-> _Cursor, cursor_visible |-> None]

\* _Data.update_rows_number, with _update_full_rows_number
update_rows_number(self) ==
    [self EXCEPT
        !.rows_number =
            IF self.data_bytes > self.group_size
            THEN (self.data_bytes + self.bytes_per_row - 1) \div self.bytes_per_row
            ELSE 1,
        !.full_rows_number = self.data_bytes \div self.bytes_per_row]

\* _Data.update_bytes_per_row, with _update_full_rows_number
update_bytes_per_row(self) ==
    LET bytes_per_row == self.groups_per_row * self.group_size
    IN  [self EXCEPT !.bytes_per_row = bytes_per_row,
                     !.full_rows_number = self.data_bytes \div bytes_per_row]

\* _Data.update_cursor_data; non_full_row_bytes_number is data_bytes.size % bytes_per_row
update_cursor_data(self) ==
    LET full == self.full_rows_number * self.cursor.positions_in_row
        max_position ==
            IF self.rows_number > self.full_rows_number
            THEN full + (self.data_bytes % self.bytes_per_row) * 2 + 1
            ELSE full
    IN  [self EXCEPT !.cursor = set_max_position(self.cursor, max_position)]

\* HexEditorWidget.set_data: _Data.update_data_bytes (the bytes it rewrites afterwards keep
\* the size)
set_data(self, size) ==
    update_cursor_data(update_rows_number([self EXCEPT !.data_bytes = size]))

\* HexEditorWidget.set_groups_per_row (group_size None leaves the group size)
set_groups_per_row(self, groups_per_row, group_size) ==
    LET sized ==
            IF group_size # None
            THEN [self EXCEPT !.groups_per_row = groups_per_row,
                              !.group_size = Get(group_size),
                              !.cursor.positions_in_group = Get(group_size) * 2]
            ELSE [self EXCEPT !.groups_per_row = groups_per_row]
        rowed ==
            [sized EXCEPT !.cursor.positions_in_row =
                            sized.cursor.positions_in_group * groups_per_row + 1]
    IN  update_rows_number(update_bytes_per_row(rowed))

\* no operation on the hex editor yet
NoOperation == [op |-> "", args |-> <<>>]

\* HexEditorWidget._h_shift_cursor_index, with _on_cursor_index_updated
_h_shift_cursor_index(self, shift, move_anchor, force_clamped_shift) ==
    IF ~force_clamped_shift /\ ~can_move_by(self.cursor, shift)
    THEN self
    ELSE [self EXCEPT !.cursor = move_by(self.cursor, shift, move_anchor),
                      !.cursor_visible = Some(TRUE)]

\* HexEditorWidget._v_shift_cursor_index
_v_shift_cursor_index(self, shift, move_anchor, force_clamped_shift) ==
    _h_shift_cursor_index(self, shift * self.cursor.positions_in_row, move_anchor,
                          force_clamped_shift)

\* HexEditorWidget.keyPressEvent: shift and control are the modifiers held; PageUp, PageDown
\* and any other key leave the cursor as it is
keyPressEvent(self, key, shift, control) ==
    LET move_anchor == ~shift
    IN  CASE key = "Key_Left" -> _h_shift_cursor_index(self, -1, move_anchor, FALSE)
          [] key = "Key_Right" -> _h_shift_cursor_index(self, 1, move_anchor, FALSE)
          [] key = "Key_Up" -> _v_shift_cursor_index(self, -1, move_anchor, FALSE)
          [] key = "Key_Down" -> _v_shift_cursor_index(self, 1, move_anchor, TRUE)
          [] key = "Key_Home" ->
                [self EXCEPT !.cursor =
                    move_to(self.cursor,
                            IF control THEN 0
                            ELSE row_positions(self.cursor, current_row(self.cursor))[1],
                            move_anchor)]
          [] key = "Key_End" ->
                [self EXCEPT !.cursor =
                    move_to(self.cursor,
                            IF control THEN self.cursor._max_position
                            ELSE row_positions(self.cursor, current_row(self.cursor))[2],
                            move_anchor)]
          [] OTHER -> self

(***************************************************************************)
(* Inputs.  Words are sampled field by field: every primary opcode, every  *)
(* secondary opcode, every bXXz discriminator, every coprocessor           *)
(* discriminator with bit 25 clear and set, every coprocessor branch type, *)
(* and the extreme values of each operand field.                           *)
(***************************************************************************)
MaxLowReg == 0
MaxLowImm == 0

RegSamples == (0..MaxLowReg) \cup {31}
ImmSamples == (0..MaxLowImm) \cup {32767, 32768, 65535}

\* bits 31:16 from primary, rs, rt; bits 15:0 from rd, shift amount, secondary
Hi(primary, rs, rt) == primary * 1024 + rs * 32 + rt
Lo(rd, shamt, secondary) == rd * 2048 + shamt * 64 + secondary

\* <<rs, rt, rd, shamt>>: all fields equal, or one field set and the others zero
FieldVectors ==
    {v \in RegSamples \X RegSamples \X RegSamples \X RegSamples :
        \/ \A k \in 1..4 : v[k] = v[1]
        \/ Cardinality({k \in 1..4 : v[k] # 0}) = 1}

SecondaryWords ==
    {Lit(Hi(0, v[1], v[2]), Lo(v[3], v[4], secondary)) : v \in FieldVectors, secondary \in 0..63}

BranchZeroWords ==
    {Lit(Hi(1, rs, rt), imm) : rs \in RegSamples, rt \in 0..31, imm \in ImmSamples}

\* bits 25:21 take every value; under discriminator 8 bits 20:16 take every value
CopWords ==
    UNION {{Lit(Hi(16 + cop_id, rs, rt), imm) :
                rt \in (IF rs = 8 THEN 0..31 ELSE RegSamples),
                imm \in (IF rs \in {0, 2, 4, 6, 8} THEN ImmSamples ELSE {0, 65535})} :
           cop_id \in 0..3, rs \in 0..31}

OtherWords ==
    {Lit(Hi(primary, rs, rt), imm) :
        primary \in (2..15) \cup (20..63), rs \in RegSamples, rt \in RegSamples, imm \in ImmSamples}

\* words the repository's tests decode: j (0x08017FFB), break 0x1800 (0x0006000D),
\* syscall 0xFFFFF (0x03FFFFCC)
TestWords == {Lit(2049, 32763), Lit(6, 13), Lit(1023, 65484)}

\* every coprocessor register index: bits 15:11 of mfc/cfc/mtc/ctc, bits 20:16 of lwc/swc
CatalogWords ==
    {Lit(Hi(16 + cop_id, rs, 0), Lo(i, 0, 0)) : cop_id \in 0..3, rs \in {0, 2, 4, 6}, i \in 0..31}
        \cup {Lit(Hi(primary + cop_id, 0, i), 0) : primary \in {48, 56}, cop_id \in 0..3, i \in 0..31}

Words ==
    SecondaryWords \cup BranchZeroWords \cup CopWords \cup OtherWords \cup TestWords
        \cup CatalogWords

\* the values a caller assigns to context.pc.value: 0x800367C8, 0x8FFFFFFC (same top four
\* bits, a carry out of the low half), 0xFFFFFFFC (the last word of the address space),
\* and the integers -4 and 2^32, which are no 32-bit addresses
PCs == {Lit(32771, 26568), Lit(36863, 65532), Lit(65535, 65532), Lit(-1, 65532), Lit(65536, 0)}

CopFamilies == {"mfc", "cfc", "mtc", "ctc", "bcf", "bct", "cop", "lwc", "swc"}

\* every opcode object of the registry
RegistryOpcodes ==
    {Opcodes[n] : n \in (DOMAIN Opcodes) \ CopFamilies}
        \cup {Opcodes[n][cop_id] : n \in CopFamilies, cop_id \in 0..3}

CpuRegs == {Some(cpu_by_index[i]) : i \in RegSamples}
S16 == {IF v >= 32768 THEN v - 65536 ELSE v : v \in ImmSamples}
U16 == ImmSamples
Shamt == {Some(v) : v \in RegSamples}
Code(bits) == {Some(v) : v \in (0..MaxLowImm) \cup {Pow2(bits) - 1}}

\* the argument sets valid for an opcode's shape
ValidArgs(opcode) ==
    CASE opcode.cls = "_ShiftImmOpcode" ->
            {OpcodeArgs(None, rt, rd, imm) : rt \in CpuRegs, rd \in CpuRegs, imm \in Shamt}
      [] opcode.cls \in {"_ShiftRegOpcode", "_AluRegOpcode"} ->
            {OpcodeArgs(rs, rt, rd, None) : rs \in CpuRegs, rt \in CpuRegs, rd \in CpuRegs}
      [] opcode.cls \in {"_JrOpcode", "_MtOpcode"} ->
            {OpcodeArgs(rs, None, None, None) : rs \in CpuRegs}
      [] opcode.cls = "_JalrOpcode" ->
            {OpcodeArgs(rs, None, rd, None) : rs \in CpuRegs, rd \in CpuRegs}
      [] opcode.cls = "_ExceptionOpcode" ->
            {OpcodeArgs(None, None, None, imm) : imm \in Code(20)}
      [] opcode.cls = "_MfOpcode" ->
            {OpcodeArgs(None, None, rd, None) : rd \in CpuRegs}
      [] opcode.cls = "_MulDivOpcode" ->
            {OpcodeArgs(rs, rt, None, None) : rs \in CpuRegs, rt \in CpuRegs}
      [] opcode.cls = "_JumpImmediateOpcode" ->
            {OpcodeArgs(None, None, None, imm) : imm \in Code(26)}
      [] opcode.cls \in {"_BranchZeroConditionOpcode", "BranchZeroConditionWithDiscriminatorOpcode"} ->
            {OpcodeArgs(rs, None, None, Some(imm)) : rs \in CpuRegs, imm \in S16}
      [] opcode.cls \in {"_BranchNonZeroConditionOpcode", "_AluSignedImmOpcode", "_CpuLoadStoreOpcode"} ->
            {OpcodeArgs(rs, rt, None, Some(imm)) : rs \in CpuRegs, rt \in CpuRegs, imm \in S16}
      [] opcode.cls = "_AluUnsignedImmOpcode" ->
            {OpcodeArgs(rs, rt, None, Some(imm)) : rs \in CpuRegs, rt \in CpuRegs, imm \in U16}
      [] opcode.cls = "_LuiOpcode" ->
            {OpcodeArgs(None, rt, None, Some(imm)) : rt \in CpuRegs, imm \in U16}
      [] opcode.cls = "_CopGetSetRegisterOpcode" ->
            {OpcodeArgs(None, rt, Some(Catalog(opcode.cop_registers)[i]), None) :
                rt \in CpuRegs, i \in RegSamples}
      [] opcode.cls = "_CopBranchOpcode" ->
            {OpcodeArgs(None, None, None, Some(imm)) : imm \in S16}
      [] opcode.cls = "_CopExecuteOpcode" ->
            {OpcodeArgs(None, None, None, imm) : imm \in Code(25)}
      [] opcode.cls = "_CopLoadStoreOpcode" ->
            {OpcodeArgs(rs, Some(cop_dat_by_index[opcode.cop_id][i]), None, Some(imm)) :
                rs \in CpuRegs, i \in RegSamples, imm \in S16}

\* the instructions a caller assembles from a registry opcode and valid arguments
References == UNION {{Instruction(opcode, args) : args \in ValidArgs(opcode)} : opcode \in RegistryOpcodes}

(***************************************************************************)
(* The state machine.  A session starts from a raw word or from an         *)
(* assembled instruction; the decoder tables are those built at import.    *)
(***************************************************************************)
Init ==
    /\ decoder = Decoder
    /\ data = _Data
    /\ last = NoOperation
    /\ callers = <<>>
    /\ context = ExecutionContext
    /\ instruction = None
    /\ encoded_back = None
    /\ valid = None
    /\ text = None
    /\ \/ reference = None /\ encoded \in {Some(w) : w \in Words}
       \/ reference \in {Some(i) : i \in References} /\ encoded = None

\* reference.encode(): the caller encodes the assembled instruction
EncodeReference ==
    /\ reference # None
    /\ encoded = None
    /\ encoded' = Some(Instruction_encode(Get(reference)))
    /\ UNCHANGED <<data, last, decoder, callers, reference, instruction, encoded_back, valid, text, context>>

\* context.pc.value = v (RuntimeRegister.value setter), before the word is decoded
SetPc(v) ==
    /\ encoded # None
    /\ instruction = None
    /\ context' = [context EXCEPT !.pc.value = v]
    /\ UNCHANGED <<data, last, decoder, callers, reference, encoded, instruction, encoded_back, valid, text>>

\* instruction = decode(encoded)
Decode ==
    /\ encoded # None
    /\ instruction = None
    /\ instruction' = Some(decode(Get(encoded)))
    /\ UNCHANGED <<data, last, decoder, callers, reference, encoded, encoded_back, valid, text, context>>

Decoded == instruction # None /\ ~IsRaised(Get(instruction))

\* instruction.encode()
Encode ==
    /\ Decoded
    /\ encoded_back = None
    /\ encoded_back' = Some(Instruction_encode(Get(instruction)))
    /\ UNCHANGED <<data, last, decoder, callers, reference, encoded, instruction, valid, text, context>>

\* instruction.is_valid()
IsValid ==
    /\ Decoded
    /\ valid = None
    /\ valid' = Some(Instruction_is_valid(Get(instruction)))
    /\ UNCHANGED <<data, last, decoder, callers, reference, encoded, instruction, encoded_back, text, context>>

\* instruction.to_string(context)
to_string ==
    /\ Decoded
    /\ text = None
    /\ text' = Some(Instruction_to_string(Get(instruction), context))
    /\ UNCHANGED <<data, last, decoder, callers, reference, encoded, instruction, encoded_back, valid, context>>

Next ==
    \/ EncodeReference
    \/ \E v \in PCs : SetPc(v)
    \/ Decode
    \/ Encode
    \/ IsValid
    \/ to_string

Spec == Init /\ [][Next]_vars

(***************************************************************************)
(* Concurrent callers.  Every caller shares the module-level decoder and   *)
(* owns its ExecutionContext.  A decode is interleaved with the other      *)
(* callers at each read of a shared dispatch table: one activation of      *)
(* Decoder._decoder first fetches decoders[i], then either returns an      *)
(* instruction or enters the next activation.                              *)
(***************************************************************************)
NumCallers == 2

Callers == 1..NumCallers

\* add (0x03FFF820), an unmapped secondary (0x0000003F), bgezal (0x0411FFFF), j (0x08017FFB),
\* bc0t (0x4101FFFF), a reserved cop2 discriminator (0x48200000), a cop2 command (0x4A000001)
CallerWords ==
    {Lit(1023, 63520), Lit(0, 63), Lit(1041, 65535), Lit(2049, 32763),
     Lit(16641, 65535), Lit(18464, 0), Lit(18944, 1)}

\* each caller's own ExecutionContext, its PC set by the caller
CallerContext(c) ==
    [ExecutionContext EXCEPT !.pc.value = IF c % 2 = 1 THEN Lit(32771, 26568) ELSE W(0)]

\* one activation of Decoder._decoder(decoders, i, encoded, invalid_cause_creator): the table
\* is named by its attribute path on the shared instance, the cause lambda by its name
Activation(decoders, i, invalid_cause_creator) ==
    [decoders |-> decoders, i |-> i, invalid_cause_creator |-> invalid_cause_creator,
     fetched |-> FALSE, decoder |-> None]

\* Decoder.decode: the activation it starts
Decoder_decode_activation(enc) ==
    Activation(<<"_primary_decoders">>, decode_primary(enc), "PrimaryCause")

\* self._primary_decoders, ..., self._coprocessor_with_discriminator_decoders[cop_id]
TableOf(self, decoders) ==
    IF Len(decoders) = 1 THEN self[decoders[1]] ELSE self[decoders[1]][decoders[2]]

CauseCreator(invalid_cause_creator) ==
    CASE invalid_cause_creator = "PrimaryCause" -> PrimaryCause
      [] invalid_cause_creator = "SecondaryCause" -> SecondaryCause
      [] invalid_cause_creator = "BranchZeroCause" -> BranchZeroCause
      [] invalid_cause_creator = "CopDiscriminatorCause" -> CopDiscriminatorCause

\* a fetch that always reads the primary table
_decoder_fetch_primary(self, activation) ==
    [activation EXCEPT !.fetched = TRUE,
                       !.decoder = Index(self._primary_decoders, activation.i)]

\* Decoder._decoder, first half: decoder = decoders[i], read from the shared instance
_decoder_fetch(self, activation) ==
    [activation EXCEPT !.fetched = TRUE,
                       !.decoder = Index(TableOf(self, activation.decoders), activation.i)]

\* a dispatcher that starts the primary dispatch again whatever entry it fetched
_decoder_call_reenter(activation, enc) ==
    [enters |-> Decoder_decode_activation(enc)]

\* Decoder._decoder, second half: `decoder(encoded) if decoder is not None else
\* _create_invalid_instruction(...)`; a nested dispatcher starts its own activation
_decoder_call(activation, enc) ==
    LET d == activation.decoder
    IN  IF IsRaised(d) THEN [returns |-> IndexError]
        ELSE IF d = None THEN
            [returns |-> _create_invalid_instruction(enc,
                            CauseCreator(activation.invalid_cause_creator)[activation.i])]
        ELSE CASE d.calls = "_instruction_from_opcode" ->
                    [returns |-> _instruction_from_opcode(d.opcode, enc)]
               [] d.calls = "_secondary_opcode_decoder" ->
                    [enters |-> Activation(<<"_secondary_decoders">>, decode_secondary(enc),
                                           "SecondaryCause")]
               [] d.calls = "_branch_zero_condition_with_discriminator_opcode_decoder" ->
                    [enters |-> Activation(<<"_branch_zero_condition_decoders">>,
                                           bxxz_decode_discriminator(enc), "BranchZeroCause")]
               [] d.calls = "_cop_non_load_store_decoder" ->
                    IF decode_is_exec_command(enc)
                    THEN [returns |-> _instruction_from_opcode(Opcodes.cop[d.cop_id], enc)]
                    ELSE [enters |-> Activation(<<"_coprocessor_with_discriminator_decoders", d.cop_id>>,
                                                decode_discriminator(enc), "CopDiscriminatorCause")]
               [] d.calls = "_cop_branch_decoder" ->
                    [returns |-> _cop_branch_decoder(enc, d.cop_id)]

InitConcurrent ==
    /\ decoder = Decoder
    /\ data = _Data
    /\ last = NoOperation
    /\ context = ExecutionContext
    /\ reference = None /\ encoded = None /\ instruction = None
    /\ encoded_back = None /\ valid = None /\ text = None
    /\ callers \in [Callers -> {[encoded |-> w, activation |-> None, instruction |-> None,
                                 encoded_back |-> None, text |-> None] : w \in CallerWords}]

\* caller c calls decode(encoded)
CallDecode(c) ==
    /\ callers[c].activation = None
    /\ callers[c].instruction = None
    /\ callers' = [callers EXCEPT ![c].activation = Some(Decoder_decode_activation(callers[c].encoded))]
    /\ UNCHANGED <<data, last, decoder, reference, encoded, instruction, encoded_back, valid, text, context>>

\* caller c reads its table entry from the shared decoder
Fetch(c) ==
    /\ callers[c].activation # None
    /\ ~Get(callers[c].activation).fetched
    /\ callers' = [callers EXCEPT ![c].activation = Some(_decoder_fetch(decoder, Get(@)))]
    /\ UNCHANGED <<data, last, decoder, reference, encoded, instruction, encoded_back, valid, text, context>>

\* caller c calls the entry it fetched: decode returns, or the next dispatcher is entered
Dispatch(c) ==
    /\ callers[c].activation # None
    /\ Get(callers[c].activation).fetched
    /\ LET step == _decoder_call(Get(callers[c].activation), callers[c].encoded)
       IN  IF "returns" \in DOMAIN step
           THEN callers' = [callers EXCEPT ![c].activation = None,
                                           ![c].instruction = Some(step.returns)]
           ELSE callers' = [callers EXCEPT ![c].activation = Some(step.enters)]
    /\ UNCHANGED <<data, last, decoder, reference, encoded, instruction, encoded_back, valid, text, context>>

\* caller c calls instruction.encode()
CallEncode(c) ==
    /\ callers[c].instruction # None
    /\ ~IsRaised(Get(callers[c].instruction))
    /\ callers[c].encoded_back = None
    /\ callers' = [callers EXCEPT ![c].encoded_back = Some(Instruction_encode(Get(callers[c].instruction)))]
    /\ UNCHANGED <<data, last, decoder, reference, encoded, instruction, encoded_back, valid, text, context>>

\* caller c calls instruction.to_string(its own context)
CallToString(c) ==
    /\ callers[c].instruction # None
    /\ ~IsRaised(Get(callers[c].instruction))
    /\ callers[c].text = None
    /\ callers' = [callers EXCEPT
                    ![c].text = Some(Instruction_to_string(Get(callers[c].instruction), CallerContext(c)))]
    /\ UNCHANGED <<data, last, decoder, reference, encoded, instruction, encoded_back, valid, text, context>>

NextConcurrent ==
    \E c \in Callers :
        \/ CallDecode(c)
        \/ Fetch(c)
        \/ Dispatch(c)
        \/ CallEncode(c)
        \/ CallToString(c)

SpecConcurrent == InitConcurrent /\ [][NextConcurrent]_vars

\* One decode on its own, step by step, over every sampled word: a single caller of the shared
\* decoder, started in the state after import.
InitDecode ==
    /\ decoder = Decoder
    /\ data = _Data
    /\ last = NoOperation
    /\ context = ExecutionContext
    /\ reference = None /\ encoded = None /\ instruction = None
    /\ encoded_back = None /\ valid = None /\ text = None
    /\ callers \in [{1} -> {[encoded |-> w, activation |-> None, instruction |-> None,
                             encoded_back |-> None, text |-> None] : w \in Words}]

NextDecode ==
    \/ CallDecode(1)
    \/ Fetch(1)
    \/ Dispatch(1)

\* The caller is a running thread of the interpreter: a decode call that has started keeps
\* executing, so its next step of Decoder._decoder is eventually taken.
SpecDecodeFair ==
    /\ InitDecode
    /\ [][NextDecode]_vars
    /\ WF_vars(Fetch(1) \/ Dispatch(1))

(***************************************************************************)
(* The hex editor session.  The widget is configured (set_groups_per_row), *)
(* given data (set_data) and receives key presses; the cursor is also      *)
(* driven directly (position and max_position assignments, move_to,        *)
(* move_by), as the repository's tests drive it.  Maximum positions given  *)
(* directly are not negative.                                              *)
(***************************************************************************)
MaxPosition == 6
MaxBytes == 2

\* positions handed to the position setter and to move_to: one before the first and one
\* after the largest maximum included
Positions == (-1)..(MaxPosition + 1)

Shifts == {-2, -1, 1}

DataSizes == 0..MaxBytes

\* (groups_per_row, group_size): two one-byte groups, one two-byte group, and a change of
\* the groups per row that leaves the group size
Layouts == {<<2, Some(1)>>, <<1, Some(2)>>, <<2, None>>}

\* <<key, shift held, control held>>: control is read for Home and End only
KeyEvents ==
    ({"Key_Left", "Key_Right", "Key_Up", "Key_Down"} \X BOOLEAN \X {FALSE})
        \cup ({"Key_Home", "Key_End"} \X BOOLEAN \X BOOLEAN)
        \cup {<<"Key_PageUp", FALSE, FALSE>>}

codec_vars ==
    <<decoder, reference, encoded, instruction, encoded_back, valid, text, context, callers>>

\* hex_editor_widget.py does not import r3000: in a session of the widget alone the codec
\* module is not loaded, so there is no decoder and no context
InitEditor ==
    /\ decoder = None
    /\ data = _Data
    /\ last = NoOperation
    /\ callers = <<>>
    /\ context = None
    /\ reference = None /\ encoded = None /\ instruction = None
    /\ encoded_back = None /\ valid = None /\ text = None

\* cursor.position = position
SetPosition(position) ==
    /\ data' = [data EXCEPT !.cursor = set_position(@, position)]
    /\ last' = [op |-> "position", args |-> <<position>>]
    /\ UNCHANGED codec_vars

\* cursor.max_position = max_position
SetMaxPosition(max_position) ==
    /\ data' = [data EXCEPT !.cursor = set_max_position(@, max_position)]
    /\ last' = [op |-> "max_position", args |-> <<max_position>>]
    /\ UNCHANGED codec_vars

\* cursor.move_to(new_position, move_anchor)
MoveTo(new_position, move_anchor) ==
    /\ data' = [data EXCEPT !.cursor = move_to(@, new_position, move_anchor)]
    /\ last' = [op |-> "move_to", args |-> <<new_position, move_anchor>>]
    /\ UNCHANGED codec_vars

\* cursor.move_by(shift, move_anchor)
MoveBy(shift, move_anchor) ==
    /\ data' = [data EXCEPT !.cursor = move_by(@, shift, move_anchor)]
    /\ last' = [op |-> "move_by", args |-> <<shift, move_anchor>>]
    /\ UNCHANGED codec_vars

\* the widget receives a key press
KeyPress(key, shift, control) ==
    /\ data' = keyPressEvent(data, key, shift, control)
    /\ last' = [op |-> "keyPressEvent", args |-> <<key, shift, control>>]
    /\ UNCHANGED codec_vars

\* widget.set_groups_per_row(groups_per_row, group_size)
SetGroupsPerRow(groups_per_row, group_size) ==
    /\ data' = set_groups_per_row(data, groups_per_row, group_size)
    /\ last' = [op |-> "set_groups_per_row", args |-> <<>>]
    /\ UNCHANGED codec_vars

\* widget.set_data(data) with an array of `size` bytes
SetData(size) ==
    /\ data' = set_data(data, size)
    /\ last' = [op |-> "set_data", args |-> <<>>]
    /\ UNCHANGED codec_vars

NextEditor ==
    \/ \E position \in Positions : SetPosition(position)
    \/ \E max_position \in 0..MaxPosition : SetMaxPosition(max_position)
    \/ \E new_position \in Positions, move_anchor \in BOOLEAN : MoveTo(new_position, move_anchor)
    \/ \E shift \in Shifts, move_anchor \in BOOLEAN : MoveBy(shift, move_anchor)
    \/ \E event \in KeyEvents : KeyPress(event[1], event[2], event[3])
    \/ \E layout \in Layouts : SetGroupsPerRow(layout[1], layout[2])
    \/ \E size \in DataSizes : SetData(size)

SpecEditor == InitEditor /\ [][NextEditor]_vars

(***************************************************************************)
(* Claims.  The fields of the word are read here by division, apart from   *)
(* the masks of the model.                                                 *)
(***************************************************************************)
Word == Get(encoded)
Result == Get(instruction)

PrimaryBits(w) == w.hi \div 1024
Bit25(w) == (w.hi \div 512) % 2
DiscriminatorBits(w) == (w.hi \div 32) % 16
RsBits(w) == (w.hi \div 32) % 32
RtBits(w) == w.hi % 32
SecondaryBits(w) == w.lo % 64
CodeBits(w) == (w.hi % 512) * 65536 + w.lo

Hex2(n) == HexDigits[(n \div 16) + 1] \o HexDigits[(n % 16) + 1]
Hex1or2(n) == IF n < 16 THEN HexDigits[n + 1] ELSE Hex2(n)

NoArgs == [rs |-> None, rt |-> None, rd |-> None, imm |-> None]

IsInstruction(r) == DOMAIN r = {"opcode", "args"}
IsResolved(r) == IsInstruction(r) /\ r.opcode \in RegistryOpcodes
IsInvalid(r) == IsInstruction(r) /\ r.opcode.cls = "InvalidOpcode"
InvalidWith(r, cause) == IsInvalid(r) /\ r.opcode.cause = cause

CatalogRegisters ==
    {cpu_by_index[i] : i \in 0..31}
        \cup {cop_dat_by_index[c][i] : c \in 0..3, i \in 0..31}
        \cup {cop_cnt_by_index[c][i] : c \in 0..3, i \in 0..31}

WellFormedArgs(args) ==
    /\ DOMAIN args = {"rs", "rt", "rd", "imm"}
    /\ \A f \in {"rs", "rt", "rd"} : args[f] = None \/ Get(args[f]) \in CatalogRegisters
    /\ args.imm = None \/ Get(args.imm) \in Int

\* C1: for every 32-bit word w, decode(w).encode() = w, whether decode(w) is valid or
\* invalid, also when w has bits set outside the fields its shape decodes.
C1_EncodeReproducesWord ==
    (Decoded /\ encoded_back # None) => Get(encoded_back) = Word

\* C2: decode is total: for every word it returns without raising, and what it returns is
\* a resolved Instruction (a registry opcode with arguments drawn from the catalogs) or an
\* InvalidInstruction (a cause, the original word, no arguments), never anything else.
C2_DecodeTotal ==
    instruction # None =>
        /\ ~IsRaised(Result)
        /\ \/ IsResolved(Result) /\ WellFormedArgs(Result.args)
           \/ IsInvalid(Result) /\ Result.opcode.encoded = Word /\ Result.args = NoArgs

\* C2 witness: decode has returned for a word of the highest primary opcode
C2_Witness == Decoded /\ PrimaryBits(Word) = 63 /\ IsInvalid(Result)

\* C3: for every word decode does not resolve to a registry opcode, the instruction has
\* is_valid() = false, to_string(context) = "invalid" for any context, no populated
\* argument field, and encode() equal to the original word.
C3_InvalidInstruction ==
    (Decoded /\ Result.opcode \notin RegistryOpcodes) =>
        /\ valid # None => Get(valid) = FALSE
        /\ text # None => Get(text) = "invalid"
        /\ Result.args = NoArgs
        /\ encoded_back # None => Get(encoded_back) = Word

\* C3 witness: an unresolved word with operand bits set, rendered under a PC the caller
\* set, checked for validity and encoded back
C3_Witness ==
    /\ Decoded /\ Result.opcode \notin RegistryOpcodes
    /\ valid # None /\ text # None /\ encoded_back # None
    /\ context.pc.value # W(0)
    /\ Word.lo = 65535

\* C4: for every registry opcode and every argument set valid for its shape, the word
\* produced by encoding them decodes to the same opcode with equal arguments and the
\* opcode's declared args_number, and encoding the decoded instruction reproduces the word.
C4_ValidRoundTrip ==
    (reference # None /\ Decoded) =>
        /\ Result.opcode = Get(reference).opcode
        /\ Result.args = Get(reference).args
        /\ Result.opcode.args_number = Get(reference).opcode.args_number
        /\ encoded_back # None => Get(encoded_back) = Word

\* C4 witness: an assembled instruction with a negative immediate and register 31 went
\* through encode, decode and encode
C4_Witness ==
    /\ reference # None /\ Decoded /\ encoded_back # None
    /\ Get(reference).args.imm = Some(-32768)
    /\ Get(reference).args.rs = Some(cpu_by_index[31])

ValidPrimaries == (0..19) \cup (32..38) \cup (40..43) \cup {46} \cup (48..51) \cup (56..59)

\* C5: every value 0..63 of bits 31:26 is classified: decode(w) is invalid with cause
\* "Invalid primary opcode 0xNN" exactly when the primary is not one of 0x00-0x13,
\* 0x20-0x26, 0x28-0x2B, 0x2E, 0x30-0x33, 0x38-0x3B; for every other primary a resolved
\* opcode has primary_opcode equal to bits 31:26.
C5_PrimaryClassified ==
    Decoded =>
        /\ InvalidWith(Result, "Invalid primary opcode 0x" \o Hex2(PrimaryBits(Word)))
                <=> PrimaryBits(Word) \notin ValidPrimaries
        /\ (PrimaryBits(Word) \in ValidPrimaries /\ IsResolved(Result))
                => Result.opcode.primary_opcode = PrimaryBits(Word)

\* C5 witness: a word of primary 0x3F was decoded to the primary-opcode cause
C5_Witness ==
    Decoded /\ PrimaryBits(Word) = 63 /\ InvalidWith(Result, "Invalid primary opcode 0x3F")

SecondaryOpcodes == {o \in RegistryOpcodes : o.cls \in SecondaryClasses}

\* C6: for every word with primary 0x00, decode dispatches on bits 5:0 only: a registry
\* secondary opcode gives that opcode, any other value gives an invalid instruction with
\* cause "Invalid secondary opcode 0xNN"; never an 'Invalid primary opcode' cause.
C6_SecondaryDispatch ==
    (Decoded /\ PrimaryBits(Word) = 0) =>
        /\ IF \E o \in SecondaryOpcodes : o.secondary_opcode = SecondaryBits(Word)
           THEN Result.opcode \in SecondaryOpcodes
                /\ Result.opcode.secondary_opcode = SecondaryBits(Word)
           ELSE InvalidWith(Result, "Invalid secondary opcode 0x" \o Hex2(SecondaryBits(Word)))
        /\ ~InvalidWith(Result, "Invalid primary opcode 0x00")

\* C6 witness: a primary-0 word with every operand bit set and the unmapped secondary 0x3F
C6_Witness ==
    /\ Decoded /\ PrimaryBits(Word) = 0 /\ SecondaryBits(Word) = 63
    /\ RsBits(Word) = 31 /\ InvalidWith(Result, "Invalid secondary opcode 0x3F")

\* C7: for every word with primary 0x01, decode dispatches on bits 20:16: 0, 1, 16, 17
\* resolve to bltz, bgez, bltzal, bgezal, and each of the other 28 values yields an
\* invalid instruction with cause "Invalid bXXz discriminator 0xNN".
C7_BranchZeroDispatch ==
    (Decoded /\ PrimaryBits(Word) = 1) =>
        CASE RtBits(Word) = 0 -> Result.opcode = Opcodes.bltz
          [] RtBits(Word) = 1 -> Result.opcode = Opcodes.bgez
          [] RtBits(Word) = 16 -> Result.opcode = Opcodes.bltzal
          [] RtBits(Word) = 17 -> Result.opcode = Opcodes.bgezal
          [] OTHER -> InvalidWith(Result, "Invalid bXXz discriminator 0x" \o Hex2(RtBits(Word)))

\* C7 witness: a primary-1 word with discriminator 17 was decoded to bgezal
C7_Witness ==
    Decoded /\ PrimaryBits(Word) = 1 /\ RtBits(Word) = 17 /\ Result.opcode.name = "bgezal"

\* C8: for every word with primary 0x10+n and bit 25 set, decode resolves to the valid
\* opcode cop{n} with the 25-bit code of bits 24:0, whatever bits 24:21 and 20:16 are.
C8_CopExecute ==
    (Decoded /\ PrimaryBits(Word) \in 16..19 /\ Bit25(Word) = 1) =>
        /\ Result.opcode = Opcodes.cop[PrimaryBits(Word) - 16]
        /\ Result.opcode.name = "cop" \o ToString(PrimaryBits(Word) - 16)
        /\ Result.args = [NoArgs EXCEPT !.imm = Some(CodeBits(Word))]
        /\ valid # None => Get(valid) = TRUE

\* C8 witness: a cop3 word with bit 25 and every bit of 24:0 set was decoded and validated
C8_Witness ==
    /\ Decoded /\ PrimaryBits(Word) = 19 /\ Bit25(Word) = 1
    /\ DiscriminatorBits(Word) = 15 /\ RtBits(Word) = 31 /\ Word.lo = 65535
    /\ valid # None

\* C9: for every word with primary 0x10+n, bit 25 clear and bits 24:21 equal to 8, decode
\* dispatches on bits 20:16: 0 resolves to bc{n}f, 1 to bc{n}t, any other value t yields an
\* invalid instruction with cause "Invalid cop branch type 0xT" (upper-case hex, no padding).
C9_CopBranchDispatch ==
    (Decoded /\ PrimaryBits(Word) \in 16..19 /\ Bit25(Word) = 0 /\ DiscriminatorBits(Word) = 8) =>
        CASE RtBits(Word) = 0 -> Result.opcode = Opcodes.bcf[PrimaryBits(Word) - 16]
          [] RtBits(Word) = 1 -> Result.opcode = Opcodes.bct[PrimaryBits(Word) - 16]
          [] OTHER -> InvalidWith(Result, "Invalid cop branch type 0x" \o Hex1or2(RtBits(Word)))

\* C9 witness: a cop2 branch word with branch type 2 was decoded to the one-digit cause
C9_Witness ==
    /\ Decoded /\ PrimaryBits(Word) = 18 /\ Bit25(Word) = 0 /\ DiscriminatorBits(Word) = 8
    /\ RtBits(Word) = 2 /\ InvalidWith(Result, "Invalid cop branch type 0x2")

\* C10: for every word with primary 0x10+n, bit 25 clear and bits 24:21 not in
\* {0, 2, 4, 6, 8}, decode returns an invalid instruction whose cause is the empty string
\* and whose encode is the original word.
C10_CopReservedDiscriminator ==
    (/\ Decoded /\ PrimaryBits(Word) \in 16..19 /\ Bit25(Word) = 0
     /\ DiscriminatorBits(Word) \notin {0, 2, 4, 6, 8}) =>
        /\ InvalidWith(Result, "")
        /\ encoded_back # None => Get(encoded_back) = Word

\* C10 witness: a cop1 word with discriminator 15 was decoded and encoded back
C10_Witness ==
    /\ Decoded /\ PrimaryBits(Word) = 17 /\ Bit25(Word) = 0 /\ DiscriminatorBits(Word) = 15
    /\ encoded_back # None /\ InvalidWith(Result, "")

\* the cause the dispatch level that rejects word w gives it
LevelCause(w) ==
    CASE PrimaryBits(w) = 0 -> "Invalid secondary opcode 0x" \o Hex2(SecondaryBits(w))
      [] PrimaryBits(w) = 1 -> "Invalid bXXz discriminator 0x" \o Hex2(RtBits(w))
      [] PrimaryBits(w) \in 16..19 /\ DiscriminatorBits(w) = 8 ->
            "Invalid cop branch type 0x" \o Hex1or2(RtBits(w))
      [] PrimaryBits(w) \in 16..19 /\ DiscriminatorBits(w) # 8 -> ""
      [] OTHER -> "Invalid primary opcode 0x" \o Hex2(PrimaryBits(w))

\* C11 (as stated): every InvalidInstruction decode returns carries a cause that names the
\* field and the value that failed to match, so the cause is never empty.
C11_CauseNeverEmpty ==
    (Decoded /\ IsInvalid(Result)) =>
        /\ Result.opcode.cause # ""
        /\ Result.opcode.cause = LevelCause(Word)

\* C11 (amended): every InvalidInstruction decode returns carries the cause of the level
\* that rejected the word, naming the field and its value, except that a reserved
\* coprocessor discriminator (bit 25 clear, bits 24:21 not in {0, 2, 4, 6, 8}) gives the
\* empty cause; the cause is empty in that case only.
C11_CauseOfLevel ==
    (Decoded /\ IsInvalid(Result)) =>
        /\ Result.opcode.cause = LevelCause(Word)
        /\ Result.opcode.cause = ""
                <=> (PrimaryBits(Word) \in 16..19 /\ DiscriminatorBits(Word) \notin {0, 2, 4, 6, 8})

\* C11 witness: a cop3 word with the reserved discriminator 9 was rejected with no cause
C11_Witness ==
    /\ Decoded /\ PrimaryBits(Word) = 19 /\ Bit25(Word) = 0 /\ DiscriminatorBits(Word) = 9
    /\ IsInvalid(Result) /\ Result.opcode.cause = ""

RelativeBranchClasses ==
    {"BranchZeroConditionWithDiscriminatorOpcode", "_BranchZeroConditionOpcode",
     "_BranchNonZeroConditionOpcode", "_CopBranchOpcode"}

\* bits 15:0 of w as a signed 16-bit value
SignedImm16(w) == IF w.lo >= 32768 THEN w.lo - 65536 ELSE w.lo

\* pcv + 4 + 4 * imm as an exact integer in [hi, lo] form
TargetOf(pcv, imm) ==
    LET low == pcv.lo + 4 + 4 * imm
    IN  [hi |-> pcv.hi + (low \div 65536), lo |-> low % 65536]

\* the register operands a relative branch renders before its target
BranchOperands(opcode, w) ==
    CASE opcode.cls = "_CopBranchOpcode" -> ""
      [] opcode.cls = "_BranchNonZeroConditionOpcode" ->
            cpu_aliases[RsBits(w) + 1] \o ", " \o cpu_aliases[RtBits(w) + 1] \o ", "
      [] OTHER -> cpu_aliases[RsBits(w) + 1] \o ", "

\* C12: for every relative branch (bltz, bgez, bltzal, bgezal, beq, bne, blez, bgtz,
\* bc{n}f, bc{n}t) and every context PC, the target to_string renders is pc + 4 + 4 * imm
\* with imm the word's bits 15:0 as a signed 16-bit value.
C12_BranchTarget ==
    (Decoded /\ text # None /\ Result.opcode.cls \in RelativeBranchClasses) =>
        Get(text) = Result.opcode.name \o " " \o BranchOperands(Result.opcode, Word)
                        \o "0x" \o FormatWideX(TargetOf(context.pc.value, SignedImm16(Word)), 8)

\* C12 witness: bne with offset -1 rendered under PC 0x800367C8 (target 0x800367C8)
C12_Witness ==
    /\ Decoded /\ text # None /\ Result.opcode.name = "bne"
    /\ Word.lo = 65535 /\ RsBits(Word) = 31
    /\ context.pc.value = Lit(32771, 26568)
    /\ Get(text) = "bne ra, zero, 0x800367C8"

Hex4(n) == Hex2(n \div 256) \o Hex2(n % 256)

\* the top four bits of a 32-bit value
TopFour(v) == v.hi \div 4096

Is32Bit(v) == v.hi \in 0..65535

\* (pcv & 0xF0000000) + 4 * (bits 25:0 of w), as eight hexadecimal digits
JumpTargetText(pcv, w) ==
    LET low == 4 * w.lo
    IN  Hex4(TopFour(pcv) * 4096 + 4 * (w.hi % 1024) + (low \div 65536)) \o Hex4(low % 65536)

\* C13: for every j/jal word and every 32-bit PC, the rendered target is
\* (pc & 0xF0000000) + 4 * imm with imm = bits 25:0: it has the PC's top four bits, fits in
\* eight hex digits, and is the same under any PC with the same top four bits.
C13_JumpTarget ==
    (/\ Decoded /\ text # None /\ Result.opcode.cls = "_JumpImmediateOpcode"
     /\ Is32Bit(context.pc.value)) =>
        /\ Get(text) = Result.opcode.name \o " 0x" \o JumpTargetText(context.pc.value, Word)
        /\ \A v \in PCs \cup {W(0)} :
                (Is32Bit(v) /\ TopFour(v) = TopFour(context.pc.value)) =>
                    Instruction_to_string(Result, [context EXCEPT !.pc.value = v]) = Get(text)

\* C13 witness: the word 0x08017FFB rendered under PC 0x8FFFFFFC
C13_Witness ==
    /\ Decoded /\ text # None /\ Word = Lit(2049, 32763)
    /\ context.pc.value = Lit(36863, 65532)
    /\ Get(text) = "j 0x8005FFEC"

\* the coprocessor of a word of primary 0x10+n, 0x30+n or 0x38+n
CopOf(w) == PrimaryBits(w) % 4

RdBits(w) == w.lo \div 2048

CpuRegisters == {cpu_by_index[i] : i \in 0..31}

Alone(c) == Decoder_decode(Decoder, callers[c].encoded)

\* C16: with any number of callers running decode, encode and to_string concurrently, each
\* on its own ExecutionContext, under every interleaving each call returns what it returns
\* when run alone, and the shared decoder is never modified.
C16_ConcurrentCallers ==
    /\ decoder = Decoder
    /\ \A c \in DOMAIN callers :
        /\ callers[c].instruction # None => Get(callers[c].instruction) = Alone(c)
        /\ callers[c].encoded_back # None =>
                Get(callers[c].encoded_back) = Instruction_encode(Alone(c))
        /\ callers[c].text # None =>
                Get(callers[c].text) = Instruction_to_string(Alone(c), CallerContext(c))

\* C16 witness: caller 1 has finished decode, encode and to_string of a branch while
\* caller 2 is inside a nested dispatch of a different word, its table entry fetched
C16_Witness ==
    /\ DOMAIN callers = Callers
    /\ callers[1].text = Some("bgezal zero, 0x800367C8") /\ callers[1].encoded_back # None
    /\ callers[2].encoded = Lit(16641, 65535)
    /\ callers[2].activation # None
    /\ Get(callers[2].activation).decoders = <<"_coprocessor_with_discriminator_decoders", 0>>
    /\ Get(callers[2].activation).fetched

\* bits 25:6 of w, the 20-bit code of syscall and break
ExceptionCode(w) == (w.hi % 1024) * 1024 + (w.lo \div 64)

IsException(r) == r.opcode \in {Opcodes.syscall, Opcodes.break_}

\* C17 (as stated): for every syscall or break word, opcode.args_number is 0 when the
\* 20-bit code is 0 and 1 otherwise.
C17_ArgsNumberFollowsCode ==
    (Decoded /\ IsException(Result)) =>
        Result.opcode.args_number = IF ExceptionCode(Word) = 0 THEN 0 ELSE 1

\* C17 (amended): for every syscall or break word, opcode.args_number is 1 whatever the
\* 20-bit code is; only the rendered text depends on the code: the bare mnemonic when the
\* code is 0, the mnemonic followed by the hex code otherwise.
C17_ExceptionArgsNumber ==
    (Decoded /\ IsException(Result)) =>
        /\ Result.opcode.args_number = 1
        /\ Result.args = [NoArgs EXCEPT !.imm = Some(ExceptionCode(Word))]
        /\ text # None =>
                Get(text) = IF ExceptionCode(Word) = 0 THEN Result.opcode.name
                            ELSE Result.opcode.name \o " 0x" \o FormatX(ExceptionCode(Word), 0)

\* C17 witness: the word 0x0000000C rendered as the bare mnemonic
C17_Witness ==
    /\ Decoded /\ Word = Lit(0, 12) /\ text = Some("syscall")
    /\ Result.opcode.args_number = 1

\* the argument fields each shape decodes
ShapeFields(cls) ==
    CASE cls = "_ShiftImmOpcode" -> {"rt", "rd", "imm"}
      [] cls \in {"_ShiftRegOpcode", "_AluRegOpcode"} -> {"rs", "rt", "rd"}
      [] cls \in {"_JrOpcode", "_MtOpcode"} -> {"rs"}
      [] cls = "_JalrOpcode" -> {"rs", "rd"}
      [] cls = "_MfOpcode" -> {"rd"}
      [] cls = "_MulDivOpcode" -> {"rs", "rt"}
      [] cls \in {"_ExceptionOpcode", "_JumpImmediateOpcode", "_CopBranchOpcode", "_CopExecuteOpcode"} ->
            {"imm"}
      [] cls \in {"BranchZeroConditionWithDiscriminatorOpcode", "_BranchZeroConditionOpcode"} ->
            {"rs", "imm"}
      [] cls \in {"_BranchNonZeroConditionOpcode", "_AluSignedImmOpcode", "_AluUnsignedImmOpcode",
                  "_CpuLoadStoreOpcode", "_CopLoadStoreOpcode"} -> {"rs", "rt", "imm"}
      [] cls = "_LuiOpcode" -> {"rt", "imm"}
      [] cls = "_CopGetSetRegisterOpcode" -> {"rt", "rd"}

Populated(args) == {f \in DOMAIN args : args[f] # None}

\* C18: for every word that decodes to a valid instruction, the populated fields of its
\* OpcodeArgs are exactly those of the opcode's shape, whatever the word's bits are: an
\* unused field is absent, a used field is present even when its bits are all zero.
C18_PopulatedFields ==
    (Decoded /\ IsResolved(Result)) =>
        Populated(Result.args) = ShapeFields(Result.opcode.cls)

\* C18 witness: the all-zero word decodes to sll with rt, rd and imm present (register
\* zero, shift amount 0) and rs absent
C18_Witness ==
    /\ Decoded /\ Word = W(0) /\ Result.opcode = Opcodes.sll
    /\ Result.args = OpcodeArgs(None, Some(cpu_by_index[0]), Some(cpu_by_index[0]), Some(0))

\* C19: a RuntimeRegister is a 32-bit cell: after any sequence of assignments to its value,
\* including values below 0 or at or above 2^32, the value read back lies in 0..2^32-1.
C19_RegisterIs32Bit ==
    /\ context.pc.value.hi \in 0..65535
    /\ context.pc.value.lo \in 0..65535

\* the range of the immediate each shape decodes
ImmRange(cls) ==
    CASE cls = "_ShiftImmOpcode" -> 0..31
      [] cls \in {"_AluUnsignedImmOpcode", "_LuiOpcode"} -> 0..65535
      [] cls = "_ExceptionOpcode" -> 0..(Pow2(20) - 1)
      [] cls = "_CopExecuteOpcode" -> 0..(Pow2(25) - 1)
      [] cls = "_JumpImmediateOpcode" -> 0..(Pow2(26) - 1)
      [] OTHER -> (-32768)..32767

\* C20: for every 32-bit word, every register index the decoder extracts (rs from bits
\* 25:21, rt from bits 20:16, rd or the coprocessor register from bits 15:11) lies in 0..31,
\* so no catalog lookup during decode is out of range, and every decoded immediate lies in
\* the range of its field.
C20_FieldRanges ==
    /\ encoded # None =>
        /\ decode_rs_index(Word) = RsBits(Word) /\ RsBits(Word) \in 0..31
        /\ decode_rt_index(Word) = RtBits(Word) /\ RtBits(Word) \in 0..31
        /\ decode_rd_index(Word) = RdBits(Word) /\ RdBits(Word) \in 0..31
    /\ instruction # None => ~IsRaised(Result)
    /\ (Decoded /\ IsResolved(Result)) =>
        /\ \A f \in {"rs", "rt", "rd"} :
                Result.args[f] # None => Get(Result.args[f]).index \in 0..31
        /\ Result.args.imm # None => Get(Result.args.imm) \in ImmRange(Result.opcode.cls)

\* C20 witness: j with every bit of its 26-bit field set decodes to the largest target
C20_Witness ==
    /\ Decoded /\ Word = Lit(3071, 65535)
    /\ Result.opcode = Opcodes.j /\ Result.args.imm = Some(Pow2(26) - 1)

(***************************************************************************)
(* C21: dispatch levels of one decode                                      *)
(***************************************************************************)
\* the dispatch level of a table: the primary table is level 1, the secondary, bXXz and
\* coprocessor discriminator tables are level 2
LevelOf(decoders) == IF decoders = <<"_primary_decoders">> THEN 1 ELSE 2

\* the entry caller c fetched hands the word to the coprocessor branch type test (level 3)
AtBranchType(c) ==
    /\ callers[c].activation # None
    /\ Get(callers[c].activation).fetched
    /\ LET d == Get(callers[c].activation).decoder
       IN  /\ ~IsRaised(d)
           /\ d # None
           /\ d.calls = "_cop_branch_decoder"

\* a step of caller c that leaves it inside a decode either entered the primary level, or
\* fetched at the level it was in, or entered a strictly deeper level
LevelAdvances(c) ==
    callers'[c].activation # None =>
        LET after == Get(callers'[c].activation)
        IN  IF callers[c].activation = None
            THEN LevelOf(after.decoders) = 1 /\ ~after.fetched
            ELSE LET before == Get(callers[c].activation)
                 IN  \/ after = before
                     \/ /\ ~before.fetched /\ after.fetched
                        /\ LevelOf(after.decoders) = LevelOf(before.decoders)
                     \/ /\ before.fetched /\ ~after.fetched
                        /\ LevelOf(after.decoders) > LevelOf(before.decoders)

\* C21: every decode reaches a terminal state (an Instruction or an InvalidInstruction)
\* after at most three dispatch levels: the primary table, then one of the secondary, bXXz
\* and coprocessor discriminator tables, then the coprocessor branch type test, which is
\* reached from the coprocessor discriminator level only and returns; the level never
\* stays or goes back when a dispatcher is entered, so no level is entered twice.
C21_DecodeTerminates ==
    /\ [][LevelAdvances(1)]_vars
    /\ [](/\ callers[1].activation # None =>
                LevelOf(Get(callers[1].activation).decoders) \in {1, 2}
          /\ AtBranchType(1) =>
                /\ Get(callers[1].activation).decoders[1] =
                        "_coprocessor_with_discriminator_decoders"
                /\ "returns" \in DOMAIN _decoder_call(Get(callers[1].activation),
                                                      callers[1].encoded))
    /\ (callers[1].activation # None) ~>
            (/\ callers[1].instruction # None
             /\ \/ IsResolved(Get(callers[1].instruction))
                \/ IsInvalid(Get(callers[1].instruction)))

\* C21 witness: the decode of bc0t (0x4101FFFF) has passed the primary and the coprocessor
\* discriminator levels and returned from the branch type test
C21_Witness ==
    /\ DOMAIN callers = {1}
    /\ callers[1].encoded = Lit(16641, 65535)
    /\ callers[1].instruction # None
    /\ IsInstruction(Get(callers[1].instruction))
    /\ Get(callers[1].instruction).opcode.name = "bc0t"

(***************************************************************************)
(* C22: the cells of a new ExecutionContext                                *)
(***************************************************************************)
\* x is a value cell of register r holding 0
IsFreshCell(x, r) == DOMAIN x = {"register", "value"} /\ x = RuntimeRegister(r)

\* C22: a new ExecutionContext (here the caller's context, of which only pc is assigned
\* later) holds a value cell with initial value 0 for every catalog register: 32 CPU cells
\* bound to CPU registers 0..31 and, for each coprocessor 0..3, 32 data cells bound to its
\* data registers and 32 control cells bound to its control registers; hi and lo are cells
\* holding 0, and pc is a cell of register pc.
C22_FreshContextCells ==
    /\ \A i \in 0..31 : IsFreshCell(ListItems(context.cpu_by_index)[i], cpu_by_index[i])
    /\ \A cop_id \in 0..3, i \in 0..31 :
        /\ IsFreshCell(ListItems(context.cop_dat_by_index)[cop_id][i],
                       cop_dat_by_index[cop_id][i])
        /\ IsFreshCell(ListItems(context.cop_cnt_by_index)[cop_id][i],
                       cop_cnt_by_index[cop_id][i])
    /\ IsFreshCell(context.hi, Register("hi", "hi", None))
    /\ IsFreshCell(context.lo, Register("lo", "lo", None))
    /\ DOMAIN context.pc = {"register", "value"} /\ context.pc.register = pc

(***************************************************************************)
(* C23..C27, C30: the hex editor cursor                                    *)
(***************************************************************************)
Cursor == data.cursor

\* C23: after any sequence of position assignments, move_to, move_by and max_position
\* assignments (max_position >= 0), and of key presses and widget configuration, the cursor
\* position satisfies 0 <= position <= max_position.
C23_PositionClamped ==
    /\ 0 <= Cursor._position
    /\ Cursor._position <= Cursor._max_position

\* C23 witness: a position above a positive maximum was assigned and clamped to it
C23_Witness ==
    /\ last.op = "position"
    /\ last.args[1] > Cursor._max_position
    /\ Cursor._max_position > 0
    /\ Cursor._position = Cursor._max_position

\* p clamped into [0, max_position]
ClampInto(p, max_position) == IF p < 0 THEN 0 ELSE IF p > max_position THEN max_position ELSE p

\* C24: move_to(p, move_anchor=True) sets both position and anchor_position to p clamped
\* into [0, max_position], for every p and whatever the position and the anchor were before
\* (so the selection is empty afterwards).
C24_MoveToCollapses ==
    (last.op = "move_to" /\ last.args[2]) =>
        /\ Cursor._position = ClampInto(last.args[1], Cursor._max_position)
        /\ Cursor._anchor_position = Cursor._position

\* C24 witness: move_to with move_anchor=True to a position above a positive maximum
C24_Witness ==
    /\ last.op = "move_to" /\ last.args[2]
    /\ last.args[1] > Cursor._max_position
    /\ Cursor._max_position > 0
    /\ Cursor._position = Cursor._max_position
    /\ Cursor._anchor_position = Cursor._max_position

\* the nibble index of a position within its group, in the cursor's layout
NibbleOf(position) == position_to_grid(Cursor, position)[3]

\* the layout is one of whole bytes: set_groups_per_row was given a group size
ByteLayout == Cursor.positions_in_group % 2 = 0

\* C25: a selection-extending move_to(p, move_anchor=False) made from a collapsed cursor
\* (position = anchor_position), in a layout of whole bytes, leaves both anchor and position
\* on a byte boundary (an even nibble index within the group): an anchor on an odd nibble
\* moves one nibble against the direction of travel, a target on an odd nibble moves one
\* nibble further in the direction of travel, and an anchor or target on an even nibble is
\* left as it is.
C25_SelectionOnByteBoundary ==
    [][\A p \in Positions :
        (/\ ByteLayout
         /\ Cursor._position = Cursor._anchor_position
         /\ MoveTo(p, FALSE)) =>
            LET target == ClampInto(p, Cursor._max_position)
                direction == IF target > Cursor._position THEN 1 ELSE -1
                after == data'.cursor
            IN  /\ position_to_grid(after, after._position)[3] % 2 = 0
                /\ position_to_grid(after, after._anchor_position)[3] % 2 = 0
                /\ after._anchor_position =
                        IF NibbleOf(Cursor._anchor_position) % 2 # 0
                        THEN Cursor._anchor_position - direction
                        ELSE Cursor._anchor_position
                /\ after._position =
                        IF NibbleOf(target) % 2 # 0 THEN target + direction ELSE target]_vars

\* the positions the conversions are compared on: several rows of the widest layout
GridPositions == 0..(4 * MaxPosition)

\* C26: with positions_in_row = positions_in_group * groups_per_row + 1,
\* grid_to_position(position_to_grid(p)) = p for every position p >= 0, where the last
\* position of a row maps to (row, last group, nibble = positions_in_group) and every other
\* position maps to (p div positions_in_row, in-row position div positions_in_group,
\* in-row position mod positions_in_group).
C26_GridRoundTrip ==
    (Cursor.positions_in_row = Cursor.positions_in_group * data.groups_per_row + 1) =>
        \A p \in GridPositions :
            LET grid == position_to_grid(Cursor, p)
                row == p \div Cursor.positions_in_row
                in_row_position == p - row * Cursor.positions_in_row
            IN  /\ grid_to_position(Cursor, grid[1], grid[2], grid[3]) = p
                /\ grid =
                    IF in_row_position = Cursor.positions_in_row - 1
                    THEN <<row, data.groups_per_row - 1, Cursor.positions_in_group>>
                    ELSE <<row, in_row_position \div Cursor.positions_in_group,
                           in_row_position % Cursor.positions_in_group>>

\* C26 witness: two groups of two nibbles per row; the cursor stands on the last position of
\* row 0, which is (0, 1, 2), and the first position of row 1 is (1, 0, 0)
C26_Witness ==
    /\ Cursor.positions_in_group = 2 /\ data.groups_per_row = 2 /\ Cursor.positions_in_row = 5
    /\ Cursor._position = 4
    /\ position_to_grid(Cursor, Cursor._position) = <<0, 1, 2>>
    /\ grid_to_position(Cursor, 0, 1, 2) = 4
    /\ position_to_grid(Cursor, 5) = <<1, 0, 0>>

\* the shift a cursor key asks for
KeyShift(key) ==
    CASE key = "Key_Left" -> -1
      [] key = "Key_Right" -> 1
      [] key = "Key_Up" -> -Cursor.positions_in_row
      [] key = "Key_Down" -> Cursor.positions_in_row

\* C27: can_move_by(s) is true exactly when 0 <= position + s <= max_position; a Left, Right
\* or Up key press whose target position falls outside [0, max_position] leaves the cursor
\* position and anchor unchanged, whereas a Down key press whose target falls past the end
\* moves the cursor to max_position (here: in a layout of whole bytes).
C27_KeyPressAtEdges ==
    /\ [](\A s \in (-(2 * MaxPosition))..(2 * MaxPosition) :
            can_move_by(Cursor, s) <=>
                (0 <= Cursor._position + s /\ Cursor._position + s <= Cursor._max_position))
    /\ [][\A event \in KeyEvents :
            KeyPress(event[1], event[2], event[3]) =>
                LET key == event[1]
                    after == data'.cursor
                IN  /\ (/\ key \in {"Key_Left", "Key_Right", "Key_Up"}
                        /\ \/ Cursor._position + KeyShift(key) < 0
                           \/ Cursor._position + KeyShift(key) > Cursor._max_position) =>
                            /\ after._position = Cursor._position
                            /\ after._anchor_position = Cursor._anchor_position
                    /\ (/\ key = "Key_Down"
                        /\ ByteLayout
                        /\ Cursor._position + KeyShift(key) > Cursor._max_position) =>
                            after._position = Cursor._max_position]_vars

\* decode applied to the word the decoded instruction encodes to
Redecoded == decode(Get(encoded_back))

\* C28: decoding is stable after one step: for every 32-bit word w,
\* decode(decode(w).encode()) has the same opcode, the same arguments, the same validity
\* and the same cause as decode(w), also when decode(w).encode() differs from w.
C28_DecodeStable ==
    (Decoded /\ encoded_back # None) =>
        /\ ~IsRaised(Redecoded)
        /\ Redecoded.opcode = Result.opcode
        /\ Redecoded.args = Result.args
        /\ Instruction_is_valid(Redecoded) = Instruction_is_valid(Result)
        /\ IsInvalid(Result) => Redecoded.opcode.cause = Result.opcode.cause

\* C28 witness: a resolved instruction with an immediate has been encoded to a word that
\* differs from the word it was decoded from
C28_Witness ==
    /\ Decoded /\ encoded_back # None
    /\ Get(encoded_back) # Word
    /\ IsResolved(Result)
    /\ Result.args.imm # None

\* C29: for every relative-branch instruction and every context PC in 0..2^32-1 (the
\* default PC 0 of a fresh ExecutionContext and PCs near 0xFFFFFFFF included), the branch
\* target to_string renders is a 32-bit address: it lies in 0..2^32-1 and is printed as
\* exactly eight hexadecimal digits without a sign.
C29_BranchTargetIs32Bit ==
    (/\ Decoded /\ text # None /\ Result.opcode.cls \in RelativeBranchClasses
     /\ Is32Bit(context.pc.value)) =>
        LET target == branch_address(context, Result.args)
        IN  /\ Is32Bit(target)
            /\ Get(text) = Result.opcode.name \o " " \o BranchOperands(Result.opcode, Word)
                                \o "0x" \o Hex4(target.hi % 65536) \o Hex4(target.lo)

\* the selection anchor of a cursor is inside [0, max_position]
AnchorInRange(cursor) == 0 <= cursor._anchor_position /\ cursor._anchor_position <= cursor._max_position

\* a call of move_to or move_by (move_anchor true or false) or a max_position assignment
CursorCall ==
    \/ \E new_position \in Positions, move_anchor \in BOOLEAN : MoveTo(new_position, move_anchor)
    \/ \E shift \in Shifts, move_anchor \in BOOLEAN : MoveBy(shift, move_anchor)
    \/ \E max_position \in 0..MaxPosition : SetMaxPosition(max_position)

\* C30: after any sequence of move_to / move_by calls (move_anchor true or false) and
\* max_position assignments (max_position >= 0), the selection anchor satisfies
\* 0 <= anchor_position <= max_position, also when a selection is started at max_position
\* on an odd nibble and extended backwards: in a layout of whole bytes, each such call made
\* with the anchor inside the range leaves it inside the range.
C30_AnchorInRange ==
    [][(ByteLayout /\ AnchorInRange(Cursor) /\ CursorCall) => AnchorInRange(data'.cursor)]_vars

====
